---- MODULE Spec2Model ----
(***************************************************************************)
(* Event pipeline, effect store and effect catalogue of the turn-based RPG *)
(* effect system (benalittlewhile/bpg).  The repository states its core as *)
(* design documents with TypeScript fragments; every definition below is   *)
(* translated from the fragment or the numbered step it names.             *)
(*                                                                         *)
(* Numbers: event values and hp are JavaScript floats in the source.  They *)
(* are kept here as integers counted in 1/Scale units (fixed point), and a *)
(* multiplier is a percentage, so 50 * 1.5 is Times(50 * Scale, 150).      *)
(***************************************************************************)
EXTENDS Integers, Sequences, FiniteSets, TLC

VARIABLES
    hp,               \* Actor -> hit points (fixed point)
    effects,          \* Actor -> flat effect collection (sequence of effect ids)
    effectsBySource,  \* Actor -> (source -> sequence of effect ids), buckets
    listeners,        \* Pipeline listener index: event type -> registrations
    effectState,      \* effect id -> the effect's internal counter
    queue,            \* Pipeline event queue
    pc,               \* position of drain(): "idle", "loop" or a phase
    cur,              \* the event being processed (the last one dequeued)
    todo,             \* handlers of the current phase still to run
    interceptors,     \* interceptors registered for the current event
    spawned,          \* events collected from the reaction phase
    nextId,           \* next event id
    evlog,            \* handler invocations of the current event
    processed,        \* (id, depth, outcome) of every event that left the pipeline
    snap,             \* persistent actor state when cur was dequeued
    roots,            \* number of root events submitted so far
    tags,             \* Actor -> for each entry of the flat collection, the
                      \*          effect and the source it was added with
    reAdded,          \* an effect was added under a second source while it
                      \*   was in the collection under another one
    faulty,           \* effect ids whose handler throws when invoked
    registry,         \* EffectRegistry: the effect types that have a factory
    errorLog,         \* handler failures caught at the Pipeline boundary
    lastCall,         \* the last call made on an actor between drains
    equipment,        \* Character -> equipped items (sequence of item ids)
    buffs,            \* Character -> active buffs (sequence of buff ids)
    currentTick,      \* Combat.currentTick (fixed point)
    actorSchedule,    \* Combat.actorSchedule: the entries (actor, ticks until
                      \*   action) of the Map in insertion order
    acting,           \* the actor the last advance() returned, until it is
                      \*   rescheduled
    granted,          \* actors granted an immediate action and not returned
                      \*   by advance() since
    sinceTurn         \* observed actor -> the delay of its last turn and,
                      \*   per actor, the turns of no shorter delay since

statVars == <<equipment, buffs>>
schedVars == <<currentTick, actorSchedule, acting, granted, sinceTurn>>

\* the state the calls on the effect store leave alone
worldVars == <<faulty, registry, statVars, schedVars>>

\* the state the pipeline leaves alone
outsideVars == <<lastCall, worldVars>>

vars == <<hp, effects, effectsBySource, listeners, effectState, queue, pc, cur,
          todo, interceptors, spawned, nextId, evlog, processed, snap, roots,
          tags, reAdded, errorLog, outsideVars>>

storeVars == <<effects, effectsBySource, listeners, effectState, tags,
               reAdded>>
eventVars == <<cur, todo, interceptors, spawned, evlog, snap, errorLog>>

----------------------------------------------------------------------------
(* Bounds of the model *)

MaxEffects == 3   \* effects held by the actors at one time
MaxRoots == 3     \* root events submitted in one behaviour
MaxPending == 2   \* root events waiting in the queue for drain()
MaxEquip == 2     \* items a character has equipped at one time
MaxBuffs == 2     \* buffs active on a character at one time
MaxTick == 100    \* ticks the combat clock runs to
MaxLoopTick == 300 \* ticks the clock runs to when only the combat loop runs

(* Program constants *)

Scale == 100      \* fixed-point units per 1.0
MaxDepth == 10    \* if (event.depth > 10)
BaseHp == 100     \* baseStats: {hp: 100, ...}
ShieldHits == 3   \* "a shield that blocks the first 3 hits"
DelayBase == 10000 \* delay = 10000 / effectiveSpeed
MaxChains == 3    \* "up to 3 chains": if chainDepth >= 3, don't chain
ChainFactor == 70 \* "chain to nearby enemies for 70% damage"

Actors == {"A", "B", "Enemy", "Beach"}

\* takesTourns: true for the characters and the enemy; the beach is an
\* environmental actor that only reacts to events
takesTourns(a) == a # "Beach"

\* Character A and Character B are allies; Enemy and Beach stand alone.
Allies(a) == IF a \in {"A", "B"} THEN {"A", "B"} \ {a} ELSE {}

EventTypes == {"damage", "heal"}

NoEvent == [id |-> -1]

\* record of a call on an actor
Call(op, actor, arg) == [op |-> op, actor |-> actor, arg |-> arg]

NoCall == Call("none", "none", "none")
NoParent == -1

\* v * (pct / 100) on fixed-point values
Times(v, pct) == (v * pct) \div 100

----------------------------------------------------------------------------
(* Effects.  An effect is created by its registry factory with a phase, a  *)
(* priority and the event types it listens for; its handler is given per   *)
(* phase below.                                                            *)

EffectIds == {"multiplyDamage", "addDamage", "amplify", "threshold", "shield",
              "counterAttack", "respawn", "percentDamage", "lifeSteal",
              "chain"}

Phase(e) ==
    CASE e = "amplify" -> "metaModification"
      [] e \in {"multiplyDamage", "addDamage", "percentDamage"} ->
            "modification"
      [] e \in {"threshold", "shield"} -> "validation"
      [] OTHER -> "reaction"

Priority(e) ==
    CASE e = "amplify" -> 150
      [] e = "multiplyDamage" -> 100
      [] e \in {"addDamage", "percentDamage"} -> 50
      [] OTHER -> 0

Listens(e) == {"damage"}

\* the effect types the data files name, and the effect each factory builds
KnownTypes ==
    {"onAttack_addDamage", "onAttack_multiplyDamage", "onDamaged_counterAttack"}

Factory(type) ==
    CASE type = "onAttack_addDamage" -> "addDamage"
      [] type = "onAttack_multiplyDamage" -> "multiplyDamage"
      [] type = "onDamaged_counterAttack" -> "counterAttack"
      [] OTHER -> "none"

\* the lookup handing back whatever the map gives, with no check of the type
createUnchecked(reg, type) == [ok |-> TRUE, effect |-> Factory(type)]

\* EffectRegistry.create(effectType, params, owner)
create(reg, type) ==
    IF type \in reg THEN [ok |-> TRUE, effect |-> Factory(type)]
    ELSE [ok |-> FALSE, error |-> "unregistered effect type"]

\* What the callers of addEffect grant in this model: (owner, effect, source).
Grants ==
    { [owner |-> "A", effect |-> "multiplyDamage", source |-> "item:sword1"],
      [owner |-> "A", effect |-> "addDamage", source |-> "item:sword1"],
      [owner |-> "B", effect |-> "amplify", source |-> "innate"],
      [owner |-> "A", effect |-> "threshold", source |-> "innate"],
      [owner |-> "Enemy", effect |-> "shield", source |-> "buff:shield"],
      [owner |-> "Enemy", effect |-> "counterAttack", source |-> "innate"],
      [owner |-> "Enemy", effect |-> "respawn", source |-> "buff:echo"] }

Sources == {g.source : g \in Grants}

----------------------------------------------------------------------------
(* Sequence helpers *)

RECURSIVE Without(_, _)
\* array.filter(e => e !== x)
Without(s, x) ==
    IF s = <<>> THEN <<>>
    ELSE IF Head(s) = x THEN Without(Tail(s), x)
    ELSE <<Head(s)>> \o Without(Tail(s), x)

RECURSIVE WithoutAll(_, _)
\* xs.forEach(x => s = s.filter(e => e !== x))
WithoutAll(s, xs) ==
    IF xs = <<>> THEN s ELSE WithoutAll(Without(s, Head(xs)), Tail(xs))

Range(s) == {s[i] : i \in DOMAIN s}

----------------------------------------------------------------------------
(* Pipeline listener index *)

\* a registration that is skipped when the effect is already registered
registerEffectOnce(idx, effect, owner) ==
    [t \in EventTypes |->
        IF t \in Listens(effect)
              /\ [effect |-> effect, owner |-> owner] \notin Range(idx[t])
        THEN Append(idx[t], [effect |-> effect, owner |-> owner])
        ELSE idx[t]]

\* pipeline.registerEffect(effect, owner)
registerEffect(idx, effect, owner) ==
    [t \in EventTypes |->
        IF t \in Listens(effect)
        THEN Append(idx[t], [effect |-> effect, owner |-> owner])
        ELSE idx[t]]

\* pipeline.unregisterEffect(effect, owner)
unregisterEffect(idx, effect, owner) ==
    [t \in EventTypes |-> Without(idx[t], [effect |-> effect, owner |-> owner])]

RECURSIVE unregisterAll(_, _, _)
unregisterAll(idx, effs, owner) ==
    IF effs = <<>> THEN idx
    ELSE unregisterAll(unregisterEffect(idx, Head(effs), owner), Tail(effs), owner)

----------------------------------------------------------------------------
(* Effect store of an actor *)

RECURSIVE SumLen(_)
SumLen(as) ==
    IF as = {} THEN 0
    ELSE LET a == CHOOSE x \in as : TRUE IN Len(effects[a]) + SumLen(as \ {a})

\* number of effects in the flat collections of all actors
EffectCount == SumLen(Actors)

Bucket(actor, source) ==
    IF source \in DOMAIN effectsBySource[actor]
    THEN effectsBySource[actor][source] ELSE <<>>

RECURSIVE SumBuckets(_, _)
SumBuckets(a, srcs) ==
    IF srcs = {} THEN 0
    ELSE LET x == CHOOSE y \in srcs : TRUE
         IN Len(effectsBySource[a][x]) + SumBuckets(a, srcs \ {x})

RECURSIVE SumIndex(_)
SumIndex(as) ==
    IF as = {} THEN 0
    ELSE LET a == CHOOSE x \in as : TRUE
         IN SumBuckets(a, DOMAIN effectsBySource[a]) + SumIndex(as \ {a})

\* number of entries in the source indexes of all actors
IndexCount == SumIndex(Actors)

\* addEffect without the call to pipeline.registerEffect
addEffectSkipsRegister(actor, effect, source) ==
    /\ effects' = [effects EXCEPT ![actor] = Append(@, effect)]
    /\ effectsBySource' =
         [effectsBySource EXCEPT ![actor] =
             (source :> Append(Bucket(actor, source), effect)) @@ @]
    /\ listeners' = listeners

\* the store after addEffect(effect, source) on actor
addEffect(actor, effect, source) ==
    /\ effects' = [effects EXCEPT ![actor] = Append(@, effect)]
    /\ effectsBySource' =
         [effectsBySource EXCEPT ![actor] =
             (source :> Append(Bucket(actor, source), effect)) @@ @]
    /\ listeners' = registerEffect(listeners, effect, actor)

\* removeEffectsFromSource taking every effect of the actor, whatever its
\* source
removeEffectsFromSourceTakesAll(actor, source) ==
    /\ effects' = [effects EXCEPT ![actor] = <<>>]
    /\ listeners' = unregisterAll(listeners, effects[actor], actor)
    /\ effectsBySource' = [effectsBySource EXCEPT ![actor] = <<>>]

\* removeEffectsFromSource without this.effectsBySource.delete(source)
removeEffectsFromSourceKeepsBucket(actor, source) ==
    /\ effects' = [effects EXCEPT ![actor] = WithoutAll(@, Bucket(actor, source))]
    /\ listeners' = unregisterAll(listeners, Bucket(actor, source), actor)
    /\ effectsBySource' = effectsBySource

\* removeEffectsFromSource without the call to pipeline.unregisterEffect
removeEffectsFromSourceKeepsListeners(actor, source) ==
    /\ effects' = [effects EXCEPT ![actor] = WithoutAll(@, Bucket(actor, source))]
    /\ listeners' = listeners
    /\ effectsBySource' =
         [effectsBySource EXCEPT ![actor] =
             [s \in (DOMAIN @) \ {source} |-> @[s]]]

\* the store after removeEffectsFromSource(source) on actor
removeEffectsFromSource(actor, source) ==
    /\ effects' = [effects EXCEPT ![actor] = WithoutAll(@, Bucket(actor, source))]
    /\ listeners' = unregisterAll(listeners, Bucket(actor, source), actor)
    /\ effectsBySource' =
         [effectsBySource EXCEPT ![actor] =
             [s \in (DOMAIN @) \ {source} |-> @[s]]]

\* the store after removeEffect(effect) on actor
removeEffect(actor, effect) ==
    /\ effects' = [effects EXCEPT ![actor] = Without(@, effect)]
    /\ effectsBySource' =
         [effectsBySource EXCEPT ![actor] =
             [s \in DOMAIN @ |-> Without(@[s], effect)]]
    /\ listeners' = unregisterEffect(listeners, effect, actor)

----------------------------------------------------------------------------
(* Events *)

\* an event as an action or a reaction handler constructs it
Template(type, source, target, amount, flags) ==
    [type |-> type, source |-> source, target |-> target,
     amount |-> amount, flags |-> flags]

\* a chained event as the chain effect constructs it
ChainTemplate(source, target, amount, depth, origin) ==
    [type |-> "damage", source |-> source, target |-> target,
     amount |-> amount, flags |-> {"isChain"}, chainDepth |-> depth,
     chainOrigin |-> origin]

\* DamageEvent: baseDamage vs currentDamage; HealEvent: baseAmount vs
\* currentAmount
ValueKeys(type) == IF type = "heal" THEN {"amount"} ELSE {"damage"}

\* the event's chainDepth property (0 if not set)
chainDepth(ev) == IF "chainDepth" \in DOMAIN ev THEN ev.chainDepth ELSE 0

\* the event's chainOrigin property
chainOrigin(ev) == IF "chainOrigin" \in DOMAIN ev THEN ev.chainOrigin ELSE "none"

\* the event submit() puts in the queue: current values start equal to base
NewEvent(id, t, depth, parent) ==
    [id |-> id, type |-> t.type, source |-> t.source, target |-> t.target,
     baseValues |-> [k \in ValueKeys(t.type) |-> t.amount],
     currentValues |-> [k \in ValueKeys(t.type) |-> t.amount],
     flags |-> t.flags, depth |-> depth, parentEvent |-> parent,
     chainDepth |-> chainDepth(t), chainOrigin |-> chainOrigin(t),
     cancelled |-> FALSE]

RECURSIVE ChildrenAtParentDepth(_, _, _)
\* the spawned events given the depth of the event they react to
ChildrenAtParentDepth(ts, parent, id) ==
    IF ts = <<>> THEN <<>>
    ELSE <<NewEvent(id, Head(ts), parent.depth, parent.id)>>
         \o ChildrenAtParentDepth(Tail(ts), parent, id + 1)

RECURSIVE Children(_, _, _)
\* the spawned events with incremented depth and parent reference
Children(ts, parent, id) ==
    IF ts = <<>> THEN <<>>
    ELSE <<NewEvent(id, Head(ts), parent.depth + 1, parent.id)>>
         \o Children(Tail(ts), parent, id + 1)

\* what the actions of the combat loop submit in this model
RootEvents ==
    { Template("damage", "A", "Enemy", 50 * Scale, {}) }

----------------------------------------------------------------------------
(* Pipeline: order of the phases and of the handlers within a phase *)

\* the phases with validation run ahead of modification
PhaseAfterValidationFirst(p) ==
    CASE p = "metaModification" -> "validation"
      [] p = "validation" -> "modification"
      [] p = "modification" -> "resolution"
      [] p = "resolution" -> "reaction"
      [] OTHER -> "loop"

\* meta-mod -> modification -> validation -> resolution -> reaction
PhaseAfter(p) ==
    CASE p = "metaModification" -> "modification"
      [] p = "modification" -> "validation"
      [] p = "validation" -> "resolution"
      [] p = "resolution" -> "reaction"
      [] OTHER -> "loop"

FirstPhase == "metaModification"

RECURSIVE InsertAheadOfEqual(_, _)
\* x goes ahead of the registrations of equal priority
InsertAheadOfEqual(s, x) ==
    IF s = <<>> THEN <<x>>
    ELSE IF Priority(Head(s).effect) > Priority(x.effect)
         THEN <<Head(s)>> \o InsertAheadOfEqual(Tail(s), x)
         ELSE <<x>> \o s

RECURSIVE InsertByPriority(_, _)
\* x goes behind every registration of equal or higher priority
InsertByPriority(s, x) ==
    IF s = <<>> THEN <<x>>
    ELSE IF Priority(Head(s).effect) >= Priority(x.effect)
         THEN <<Head(s)>> \o InsertByPriority(Tail(s), x)
         ELSE <<x>> \o s

RECURSIVE SortFrom(_, _)
SortFrom(acc, s) ==
    IF s = <<>> THEN acc ELSE SortFrom(InsertByPriority(acc, Head(s)), Tail(s))

\* no sort: the handlers run in registration order
SortByRegistration(s) == s

\* highest priority first, registration order within one priority
SortByPriority(s) == SortFrom(<<>>, s)

InPhase(p, h) == Phase(h.effect) = p

\* the handlers of phase p for an event of type t, under listener index idx
HandlersIn(idx, p, t) ==
    SortByPriority(SelectSeq(idx[t], LAMBDA h : InPhase(p, h)))

Handlers(p, ev) == HandlersIn(listeners, p, ev.type)

\* the depth check written with >= : the event at the limit is dropped too
TooDeepAtLimit(ev) == ev.depth >= MaxDepth

\* 1. check depth: if over limit, skip this event
TooDeep(ev) == ev.depth > MaxDepth

----------------------------------------------------------------------------
(* Handlers of the effects *)

\* amplify: registers an interceptor for the additive modifications of an ally
MetaHandler(h, ev, ints) ==
    IF h.effect = "amplify" /\ ev.source \in Allies(h.owner)
    THEN Append(ints, [for |-> ev.source, kind |-> "additive", pct |-> 150])
    ELSE ints

\* the modification applied as its handler computed it, interceptors unread
InterceptedNever(delta, owner, ints) == delta

RECURSIVE Intercepted(_, _, _)
\* the delta of an additive modification of owner, as the interceptors adjust it
Intercepted(delta, owner, ints) ==
    IF ints = <<>> THEN delta
    ELSE Intercepted(
             IF Head(ints).for = owner /\ Head(ints).kind = "additive"
             THEN Times(delta, Head(ints).pct) ELSE delta,
             owner, Tail(ints))

\* the modifications written over the original value instead of the
\* current one
ModHandlerOnBase(h, ev, ints) ==
    IF ev.source # h.owner THEN ev
    ELSE CASE h.effect = "multiplyDamage" ->
                [ev EXCEPT !.baseValues.damage = Times(@, 150)]
           [] h.effect = "addDamage" ->
                [ev EXCEPT !.baseValues.damage =
                               @ + Intercepted(10 * Scale, h.owner, ints)]
           [] h.effect = "percentDamage" ->
                [ev EXCEPT !.baseValues.damage =
                               @ + Intercepted(Times(@, 20), h.owner, ints)]
           [] OTHER -> ev

\* multiplyDamage: x1.5; addDamage: +10; percentDamage: "Deal +20% damage"
\* (event.source === owner)
ModHandler(h, ev, ints) ==
    IF ev.source # h.owner THEN ev
    ELSE CASE h.effect = "multiplyDamage" ->
                [ev EXCEPT !.currentValues.damage = Times(@, 150)]
           [] h.effect = "addDamage" ->
                [ev EXCEPT !.currentValues.damage =
                               @ + Intercepted(10 * Scale, h.owner, ints)]
           [] h.effect = "percentDamage" ->
                [ev EXCEPT !.currentValues.damage =
                               @ + Intercepted(Times(@, 20), h.owner, ints)]
           [] OTHER -> ev

\* threshold: ignore damage below 5; shield: blocks the hit.
\* TRUE lets the event proceed.
Allow(h, ev) ==
    IF ev.target # h.owner THEN TRUE
    ELSE CASE h.effect = "threshold" -> ~(ev.currentValues.damage < 5 * Scale)
           [] h.effect = "shield" -> FALSE
           [] OTHER -> TRUE

\* the counter-attack without the check of the flag
counterAttackOnEveryHit(h, ev) ==
    IF ev.target = h.owner
    THEN <<Template("damage", h.owner, ev.source, 3 * Scale,
                    {"isRetaliation"})>>
    ELSE <<>>

\* when damaged, deal damage to the attacker, unless the event is itself a
\* retaliation
counterAttack(h, ev) ==
    IF ev.target = h.owner /\ "isRetaliation" \notin ev.flags
    THEN <<Template("damage", h.owner, ev.source, 3 * Scale,
                    {"isRetaliation"})>>
    ELSE <<>>

\* the heal taken from the damage dealt instead of the damage increase
lifeStealOfDamage(h, ev) ==
    IF ev.source = h.owner
    THEN <<Template("heal", h.owner, h.owner,
                    Times(ev.currentValues.damage, 30), {"fromLifeSteal"})>>
    ELSE <<>>

\* Heal for (event.currentDamage - event.baseDamage) x 0.3
lifeSteal(h, ev) ==
    IF ev.source = h.owner
    THEN <<Template("heal", h.owner, h.owner,
                    Times(ev.currentValues.damage - ev.baseValues.damage, 30),
                    {"fromLifeSteal"})>>
    ELSE <<>>

RECURSIVE Diminished(_, _)
\* v x (0.7 ^ n)
Diminished(v, n) ==
    IF n = 0 THEN v ELSE Diminished(Times(v, ChainFactor), n - 1)

\* the enemies standing in a ring, each with one other enemy in reach
Nearby(target) ==
    CASE target = "Enemy" -> {"B"}
      [] target = "B" -> {"Beach"}
      [] target = "Beach" -> {"Enemy"}
      [] OTHER -> {}

\* the one nearby enemy of the ring
NearbyOne(target) == CHOOSE e \in Nearby(target) : TRUE

\* "Attacks chain to nearby enemies for 70% damage, up to 3 chains":
\* if chainDepth >= 3, don't chain; damage baseDamage x (0.7 ^ chainDepth);
\* the new event has the parent's chainDepth + 1 and the parent's chainOrigin
\* (or the current target if the parent was not a chain)
chain(h, ev) ==
    IF ev.source # h.owner \/ chainDepth(ev) >= MaxChains
          \/ Nearby(ev.target) = {}
    THEN <<>>
    ELSE <<ChainTemplate(h.owner, NearbyOne(ev.target),
                         Diminished(ev.baseValues.damage, chainDepth(ev)),
                         chainDepth(ev) + 1,
                         IF "isChain" \in ev.flags THEN chainOrigin(ev)
                         ELSE ev.target)>>

\* counterAttack, lifeSteal, chain; respawn: the same event again, no flag
\* check
ReactHandler(h, ev) ==
    CASE h.effect = "counterAttack" -> counterAttack(h, ev)
      [] h.effect = "lifeSteal" -> lifeSteal(h, ev)
      [] h.effect = "chain" -> chain(h, ev)
      [] h.effect = "respawn" ->
            <<Template(ev.type, ev.source, ev.target, ev.baseValues.damage,
                       ev.flags)>>
      [] OTHER -> <<>>

\* a resolved heal raises the target's hp by the current amount
healResolution(ev, h) == [h EXCEPT ![ev.target] = @ + ev.currentValues.amount]

\* built-in game logic: damage subtracts from the target's hp
Resolution(ev, h) ==
    CASE ev.type = "damage" ->
            [h EXCEPT ![ev.target] = @ - ev.currentValues.damage]
      [] ev.type = "heal" -> healResolution(ev, h)
      [] OTHER -> h

Persistent ==
    [hp |-> hp, effects |-> effects, effectsBySource |-> effectsBySource,
     listeners |-> listeners]

\* log record of one handler invocation: what ran, what it saw, what it answered
Entry(p, h, result) ==
    [phase |-> p, effect |-> h.effect, owner |-> h.owner,
     seen |-> cur.currentValues, hpSeen |-> hp[cur.target], result |-> result]

\* log record of an event leaving the pipeline
Outcome(ev, o) == [id |-> ev.id, depth |-> ev.depth, outcome |-> o]

Builtin == [effect |-> "builtin", owner |-> "pipeline"]

----------------------------------------------------------------------------
(* Property aggregation: items, buffs and class own their grants, the      *)
(* character collects them on access.                                      *)

Characters == {"A", "B"}

Stats == {"attack", "speed"}

\* baseStats: {hp: 100, attack: 20, speed: 100}
BaseStats(a) == [attack |-> 20, speed |-> 100]

Items == {"sword1", "ring1"}

Buffs == {"rage", "haste", "slow", "disarm"}

\* grants.stats.flat of an item; a stat it does not grant is absent, the
\* ring names attack with a grant of 0
ItemFlat(item) ==
    CASE item = "sword1" -> [attack |-> 10]
      [] item = "ring1" -> [speed |-> 100, attack |-> 0]

\* grants.effects of an item
ItemEffects(item) ==
    CASE item = "sword1" -> <<"multiplyDamage", "addDamage">>
      [] item = "ring1" -> <<>>

\* grants.stats.flat of the character's class
ClassFlat(a) == IF a = "A" THEN [attack |-> 5] ELSE <<>>

\* grants.stats.percent of a buff, in hundredths: 150 is x1.5
BuffPercent(buff) ==
    CASE buff = "rage" -> [attack |-> 150]
      [] buff = "haste" -> [speed |-> 200]
      [] buff = "slow" -> [speed |-> 50]
      [] buff = "disarm" -> [attack |-> 0]

\* grants.stats?.flat?.[stat]: 0 stands for undefined
Granted(g, stat) == IF stat \in DOMAIN g THEN g[stat] ELSE 0

\* x || d: d when x is undefined or 0
OrElse(x, d) == IF x = 0 THEN d ELSE x

RECURSIVE AddFlats(_, _, _)
\* this.equipment.forEach(item => attack += item.grants.stats?.flat?.attack || 0)
AddFlats(acc, items, stat) ==
    IF items = <<>> THEN acc
    ELSE AddFlats(acc + OrElse(Granted(ItemFlat(Head(items)), stat), 0),
                  Tail(items), stat)

RECURSIVE MulPercentsNullish(_, _, _)
\* the product with ?? in place of ||: only an absent grant is neutral
MulPercentsNullish(acc, bs, stat) ==
    IF bs = <<>> THEN acc
    ELSE MulPercentsNullish(
             acc * (IF stat \in DOMAIN BuffPercent(Head(bs))
                    THEN BuffPercent(Head(bs))[stat] ELSE 100),
             Tail(bs), stat)

RECURSIVE MulPercents(_, _, _)
\* this.buffs.forEach(buff => percent *= buff.grants.stats?.percent?.attack || 1.0)
\* percent is kept exact: a numerator in units of 1/100 per buff
MulPercents(acc, bs, stat) ==
    IF bs = <<>> THEN acc
    ELSE MulPercents(acc * OrElse(Granted(BuffPercent(Head(bs)), stat), 100),
                     Tail(bs), stat)

RECURSIVE Pow100(_)
Pow100(n) == IF n = 0 THEN 1 ELSE 100 * Pow100(n - 1)

\* get effectiveAttack(), for any stat: the value in fixed point
effectiveStat(a, stat) ==
    LET attack == AddFlats(BaseStats(a)[stat]
                             + OrElse(Granted(ClassFlat(a), stat), 0),
                           equipment[a], stat)
        percent == MulPercents(1, buffs[a], stat)
    IN (attack * Scale * percent) \div Pow100(Len(buffs[a]))

\* no item equipped, no buff active, nobody scheduled
WorldInit ==
    /\ equipment = [a \in Characters |-> <<>>]
    /\ buffs = [a \in Characters |-> <<>>]
    /\ currentTick = 0
    /\ actorSchedule = <<>>
    /\ acting = "none"
    /\ granted = {}
    /\ sinceTurn = <<>>

----------------------------------------------------------------------------
(* State after construction *)

Init ==
    /\ hp = [a \in Actors |-> BaseHp * Scale]
    /\ effects = [a \in Actors |-> <<>>]
    /\ effectsBySource = [a \in Actors |-> <<>>]
    /\ listeners = [t \in EventTypes |-> <<>>]
    /\ effectState = [e \in EffectIds |-> 0]
    /\ queue = <<>>
    /\ pc = "idle"
    /\ cur = NoEvent
    /\ todo = <<>>
    /\ interceptors = <<>>
    /\ spawned = <<>>
    /\ nextId = 0
    /\ evlog = <<>>
    /\ processed = <<>>
    /\ snap = [hp |-> hp, effects |-> effects,
               effectsBySource |-> effectsBySource, listeners |-> listeners]
    /\ roots = 0
    /\ tags = [a \in Actors |-> <<>>]
    /\ reAdded = FALSE
    /\ faulty = {}
    /\ registry = KnownTypes
    /\ errorLog = <<>>
    /\ lastCall = NoCall
    /\ WorldInit

----------------------------------------------------------------------------
(* Calls made between drains *)

\* the tags of the entries the flat collection keeps when effs are filtered out
Untagged(ts, effs) == SelectSeq(ts, LAMBDA t : t.effect \notin effs)

\* actor.addEffect(createEffect(def, actor), source)
AddEffect(actor, effect, source) ==
    /\ pc = "idle"
    /\ EffectCount < MaxEffects
    /\ IndexCount < MaxEffects
    /\ roots = 0
    /\ addEffect(actor, effect, source)
    /\ effectState' = [effectState EXCEPT ![effect] = 0]
    /\ tags' = [tags EXCEPT ![actor] =
                    Append(@, [effect |-> effect, source |-> source])]
    /\ reAdded' = (reAdded \/ \E i \in DOMAIN tags[actor] :
                                  /\ tags[actor][i].effect = effect
                                  /\ tags[actor][i].source # source)
    /\ lastCall' = Call("addEffect", actor, <<effect, source>>)
    /\ UNCHANGED <<hp, queue, pc, nextId, processed, roots, eventVars>>
    /\ UNCHANGED worldVars

\* actor.removeEffectsFromSource(source)
RemoveEffectsFromSource(actor, source) ==
    /\ pc = "idle"
    /\ roots = 0
    /\ removeEffectsFromSource(actor, source)
    /\ tags' = [tags EXCEPT ![actor] = Untagged(@, Range(Bucket(actor, source)))]
    /\ lastCall' = Call("removeEffectsFromSource", actor,
                        <<source, Bucket(actor, source)>>)
    /\ UNCHANGED <<hp, effectState, reAdded, queue, pc, nextId, processed,
                   roots, eventVars>>
    /\ UNCHANGED worldVars

\* actor.removeEffect(effect)
RemoveEffect(actor, effect) ==
    /\ pc = "idle"
    /\ roots = 0
    /\ removeEffect(actor, effect)
    /\ tags' = [tags EXCEPT ![actor] = Untagged(@, {effect})]
    /\ lastCall' = Call("removeEffect", actor, effect)
    /\ UNCHANGED <<hp, effectState, reAdded, queue, pc, nextId, processed,
                   roots, eventVars>>
    /\ UNCHANGED worldVars

\* pipeline.submit(event) of a root event
Submit(t) ==
    /\ pc = "idle"
    /\ roots < MaxRoots
    /\ Len(queue) < MaxPending
    /\ queue' = Append(queue, NewEvent(nextId, t, 0, NoParent))
    /\ nextId' = nextId + 1
    /\ roots' = roots + 1
    /\ lastCall' = NoCall
    /\ UNCHANGED <<hp, storeVars, pc, processed, eventVars>>
    /\ UNCHANGED worldVars

----------------------------------------------------------------------------
(* Equipment and buffs *)

\* `item:${item.id}`
ItemSource(item) ==
    CASE item = "sword1" -> "item:sword1"
      [] item = "ring1" -> "item:ring1"

RECURSIVE registerAll(_, _, _)
\* effects.forEach(effect => pipeline.registerEffect(effect, owner))
registerAll(idx, effs, owner) ==
    IF effs = <<>> THEN idx
    ELSE registerAll(registerEffect(idx, Head(effs), owner), Tail(effs), owner)

\* character.equipItem(item): the item joins the array and each effect it
\* grants is created and added under the item's source
EquipItem(a, item) ==
    /\ pc = "idle"
    /\ Len(equipment[a]) < MaxEquip
    /\ equipment' = [equipment EXCEPT ![a] = Append(@, item)]
    /\ effects' = [effects EXCEPT ![a] = @ \o ItemEffects(item)]
    /\ effectsBySource' =
          IF ItemEffects(item) = <<>> THEN effectsBySource
          ELSE [effectsBySource EXCEPT ![a] =
                   (ItemSource(item) :>
                       Bucket(a, ItemSource(item)) \o ItemEffects(item)) @@ @]
    /\ listeners' = registerAll(listeners, ItemEffects(item), a)
    /\ effectState' = [e \in EffectIds |->
                          IF e \in Range(ItemEffects(item)) THEN 0
                          ELSE effectState[e]]
    /\ tags' = [tags EXCEPT ![a] =
                    @ \o [i \in DOMAIN ItemEffects(item) |->
                             [effect |-> ItemEffects(item)[i],
                              source |-> ItemSource(item)]]]
    /\ lastCall' = Call("equipItem", a, item)
    /\ UNCHANGED <<hp, reAdded, queue, nextId, processed, roots, eventVars, pc,
                   faulty, registry, buffs, schedVars>>

\* unequipItem without the cleanup of the item's effects
UnequipItemKeepsEffects(a, item) ==
    /\ pc = "idle"
    /\ equipment' = [equipment EXCEPT ![a] = Without(@, item)]
    /\ lastCall' = Call("unequipItem", a, item)
    /\ UNCHANGED <<hp, storeVars, queue, nextId, processed, roots,
                   eventVars, pc, faulty, registry, buffs, schedVars>>

\* character.unequipItem(item): the item leaves the array, its effects are
\* cleaned up
UnequipItem(a, item) ==
    /\ pc = "idle"
    /\ equipment' = [equipment EXCEPT ![a] = Without(@, item)]
    /\ removeEffectsFromSource(a, ItemSource(item))
    /\ tags' = [tags EXCEPT ![a] =
                    Untagged(@, Range(Bucket(a, ItemSource(item))))]
    /\ lastCall' = Call("unequipItem", a, item)
    /\ UNCHANGED <<hp, effectState, reAdded, queue, nextId, processed, roots,
                   eventVars, pc, faulty, registry, buffs, schedVars>>

\* a buff becomes active on the character
AddBuff(a, buff) ==
    /\ pc = "idle"
    /\ Len(buffs[a]) < MaxBuffs
    /\ buffs' = [buffs EXCEPT ![a] = Append(@, buff)]
    /\ lastCall' = Call("addBuff", a, buff)
    /\ UNCHANGED <<hp, storeVars, queue, nextId, processed, roots, eventVars,
                   pc, faulty, registry, equipment, schedVars>>

\* a buff expires or is removed
RemoveBuff(a, buff) ==
    /\ pc = "idle"
    /\ buffs' = [buffs EXCEPT ![a] = Without(@, buff)]
    /\ lastCall' = Call("removeBuff", a, buff)
    /\ UNCHANGED <<hp, storeVars, queue, nextId, processed, roots, eventVars,
                   pc, faulty, registry, equipment, schedVars>>

----------------------------------------------------------------------------
(* Tick-based scheduling.  Ticks are fixed point like every other number.   *)

\* the actors with takesTurns: true
TurnTakers == {a \in Actors : takesTourns(a)}

Scheduled == {actorSchedule[i].actor : i \in DOMAIN actorSchedule}

\* actorSchedule.get(a)
TicksOf(a) ==
    actorSchedule[CHOOSE i \in DOMAIN actorSchedule :
                      actorSchedule[i].actor = a].ticks

\* actorSchedule.set(a, t): an existing key keeps its place in the Map
SetTicks(sched, a, t) ==
    IF \E i \in DOMAIN sched : sched[i].actor = a
    THEN [i \in DOMAIN sched |->
             IF sched[i].actor = a THEN [actor |-> a, ticks |-> t]
             ELSE sched[i]]
    ELSE Append(sched, [actor |-> a, ticks |-> t])

\* 1. the lowest tick count of the schedule
MinTicks ==
    CHOOSE m \in {actorSchedule[i].ticks : i \in DOMAIN actorSchedule} :
        \A i \in DOMAIN actorSchedule : m <= actorSchedule[i].ticks

\* among the actors with the lowest tick count, the last one in Map order
LastDue ==
    actorSchedule[CHOOSE i \in DOMAIN actorSchedule :
                      /\ actorSchedule[i].ticks = MinTicks
                      /\ \A j \in DOMAIN actorSchedule :
                            actorSchedule[j].ticks = MinTicks => j <= i].actor

\* among the actors with the lowest tick count, the first one in Map order
FirstDue ==
    actorSchedule[CHOOSE i \in DOMAIN actorSchedule :
                      /\ actorSchedule[i].ticks = MinTicks
                      /\ \A j \in DOMAIN actorSchedule :
                            actorSchedule[j].ticks = MinTicks => i <= j].actor

\* time advancing for the selected actor alone
ElapsedForSelectedOnly(sched, m, who) ==
    [i \in DOMAIN sched |->
        IF sched[i].actor = who THEN [sched[i] EXCEPT !.ticks = 0]
        ELSE sched[i]]

\* 2. advance time by m: every actor is m ticks closer to its action
Elapsed(sched, m, who) ==
    [i \in DOMAIN sched |-> [sched[i] EXCEPT !.ticks = @ - m]]

effectiveSpeed(a) ==
    IF a \in Characters THEN effectiveStat(a, "speed")
    ELSE BaseStats(a).speed * Scale

\* the speed multiplier applied as a whole number of times
delayWholeMultiplier(speed, m) ==
    ((DelayBase * Scale * Scale) \div speed) * (m \div 100)

\* delay = 10000 / effectiveSpeed, scaled by the action's speed multiplier
\* m (in hundredths: 50 is the fast attack, 200 the slow one); no rounding
\* is applied, the result may be a fraction of a tick
delay(speed, m) == Times((DelayBase * Scale * Scale) \div speed, m)

\* the delay computed from the base speed, buffs and items left out
DelayFromBaseSpeed(a, m) ==
    Times((DelayBase * Scale * Scale)
              \div (BaseStats(a).speed * Scale), m)

\* the delay of actor a at its effective speed
Delay(a, m) == delay(effectiveSpeed(a), m)

\* adding ticks with no lower limit
DelayedUnclamped(t, extra) == t + extra

\* add ticks; the result is never negative
Delayed(t, extra) == IF t + extra < 0 THEN 0 ELSE t + extra

\* ticks set to the delay instead of 0
ImmediateAsRescheduled(a) == Delay(a, 100)

\* set ticks to 0
Immediate(a) == 0

\* the turns seen once actor a has acted and is rescheduled with delay e:
\* a starts a new wait, and every other observed actor whose own delay is no
\* longer than e has seen one more turn of a
Observed(st, a, e) ==
    [x \in DOMAIN st |->
        IF x = a THEN [d |-> e, n |-> [y \in DOMAIN st |-> 0]]
        ELSE IF st[x].d >= 0 /\ e >= st[x].d /\ a \in DOMAIN st
             THEN [st[x] EXCEPT !.n[a] = IF @ > 2 THEN @ ELSE @ + 1]
             ELSE st[x]]

\* advance(): find the lowest tick count, advance time to it, return one
\* actor that is at 0; the clock of the model runs to limit
AdvanceWithin(limit) ==
    /\ pc = "idle"
    /\ acting = "none"
    /\ actorSchedule # <<>>
    /\ currentTick + MinTicks <= limit * Scale
    /\ currentTick' = currentTick + MinTicks
    /\ actorSchedule' = Elapsed(actorSchedule, MinTicks, FirstDue)
    /\ acting' = FirstDue
    /\ granted' = granted \ {FirstDue}
    /\ lastCall' = Call("advance", FirstDue, MinTicks)
    /\ UNCHANGED <<hp, storeVars, queue, pc, nextId, processed, roots,
                   eventVars, faulty, registry, statVars, sinceTurn>>

\* advance() while the clock has not run to MaxTick
Advance == AdvanceWithin(MaxTick)

\* scheduleNext(actor, m): 4. reschedule the actor that acted by its speed
ScheduleNext(a, m) ==
    /\ pc = "idle"
    /\ acting = a
    /\ actorSchedule' = SetTicks(actorSchedule, a, Delay(a, m))
    /\ sinceTurn' = Observed(sinceTurn, a, Delay(a, m))
    /\ acting' = "none"
    /\ lastCall' = Call("scheduleNext", a, m)
    /\ UNCHANGED <<hp, storeVars, queue, pc, nextId, processed, roots,
                   eventVars, faulty, registry, statVars, currentTick, granted>>

\* scheduleNext(actor, m) for an actor whose effective speed is speed
ScheduleNextAt(a, speed, m) ==
    /\ pc = "idle"
    /\ acting = a
    /\ actorSchedule' = SetTicks(actorSchedule, a, delay(speed, m))
    /\ sinceTurn' = Observed(sinceTurn, a, delay(speed, m))
    /\ acting' = "none"
    /\ lastCall' = Call("scheduleNext", a, <<speed, m>>)
    /\ UNCHANGED <<hp, storeVars, queue, pc, nextId, processed, roots,
                   eventVars, faulty, registry, statVars, currentTick, granted>>

\* grantImmediateAction(actor)
GrantImmediateAction(a) ==
    /\ pc = "idle"
    /\ a \in Scheduled
    /\ actorSchedule' = SetTicks(actorSchedule, a, Immediate(a))
    /\ granted' = granted \cup {a}
    /\ lastCall' = Call("grantImmediateAction", a, TicksOf(a))
    /\ UNCHANGED <<hp, storeVars, queue, pc, nextId, processed, roots,
                   eventVars, faulty, registry, statVars, currentTick, acting,
                   sinceTurn>>

\* delay(actor, extraTicks): stun or slow
DelayActor(a, extra) ==
    /\ pc = "idle"
    /\ a \in Scheduled
    /\ TicksOf(a) + extra <= MaxTick * Scale
    /\ actorSchedule' = SetTicks(actorSchedule, a, Delayed(TicksOf(a), extra))
    /\ lastCall' = Call("delay", a, <<extra, TicksOf(a)>>)
    /\ UNCHANGED <<hp, storeVars, queue, pc, nextId, processed, roots,
                   eventVars, faulty, registry, statVars, currentTick, acting,
                   granted, sinceTurn>>

\* the schedule taking in whatever actor it is handed
AdmitsAnyone(a) == TRUE

\* true: added to the turn queue; false: only reacts to events, never acts
Admits(a) == takesTourns(a)

\* addActor(actor): the actor joins the schedule with the delay of its speed
AddActor(a) ==
    /\ pc = "idle"
    /\ Admits(a)
    /\ a \notin Scheduled
    /\ actorSchedule' = SetTicks(actorSchedule, a, Delay(a, 100))
    /\ lastCall' = Call("addActor", a, "none")
    /\ UNCHANGED <<hp, storeVars, queue, pc, nextId, processed, roots,
                   eventVars, faulty, registry, statVars, currentTick, acting,
                   granted, sinceTurn>>

\* removeActor(actor): the actor leaves the schedule
RemoveActor(a) ==
    /\ pc = "idle"
    /\ a \in Scheduled
    /\ actorSchedule' = SelectSeq(actorSchedule, LAMBDA e : e.actor # a)
    /\ acting' = IF acting = a THEN "none" ELSE acting
    /\ granted' = granted \ {a}
    /\ lastCall' = Call("removeActor", a, "none")
    /\ UNCHANGED <<hp, storeVars, queue, pc, nextId, processed, roots,
                   eventVars, faulty, registry, statVars, currentTick,
                   sinceTurn>>

----------------------------------------------------------------------------
(* pipeline.drain() *)

Drain ==
    /\ pc = "idle"
    /\ pc' = "loop"
    /\ UNCHANGED <<hp, storeVars, queue, nextId, processed, roots, eventVars>>
    /\ UNCHANGED outsideVars

\* drain() walking a copy of the queue taken at the call: it returns as
\* soon as only events submitted during the call are left
DrainReturnSnapshot ==
    /\ pc = "loop"
    /\ IF queue = <<>> THEN TRUE ELSE Head(queue).depth > 0
    /\ pc' = "idle"
    /\ UNCHANGED <<hp, storeVars, queue, nextId, processed, roots,
                   eventVars>>
    /\ UNCHANGED outsideVars

\* the queue is empty: drain() returns
DrainReturn ==
    /\ pc = "loop"
    /\ queue = <<>>
    /\ pc' = "idle"
    /\ UNCHANGED <<hp, storeVars, queue, nextId, processed, roots,
                   eventVars>>
    /\ UNCHANGED outsideVars

\* the depth check looking at the head of the queue without taking it out
DropTooDeepKeepsEvent ==
    /\ pc = "loop"
    /\ queue # <<>>
    /\ TooDeep(Head(queue))
    /\ cur' = Head(queue)
    /\ evlog' = <<>>
    /\ snap' = Persistent
    /\ pc' = "loop"
    /\ UNCHANGED <<hp, storeVars, queue, nextId, processed, roots, todo,
                   interceptors, spawned>>
    /\ UNCHANGED <<errorLog, outsideVars>>

\* the depth breach stopping the whole chain: every queued event is thrown away
DropTooDeepClearsQueue ==
    /\ pc = "loop"
    /\ queue # <<>>
    /\ TooDeep(Head(queue))
    /\ cur' = Head(queue)
    /\ queue' = <<>>
    /\ processed' = Append(processed, Outcome(Head(queue), "dropped"))
    /\ evlog' = <<>>
    /\ snap' = Persistent
    /\ pc' = "loop"
    /\ UNCHANGED <<hp, storeVars, nextId, roots, todo, interceptors, spawned>>
    /\ UNCHANGED <<errorLog, outsideVars>>

\* 1. over the depth limit: log a warning, skip this event
DropTooDeep ==
    /\ pc = "loop"
    /\ queue # <<>>
    /\ TooDeep(Head(queue))
    /\ cur' = Head(queue)
    /\ queue' = Tail(queue)
    /\ processed' = Append(processed, Outcome(Head(queue), "dropped"))
    /\ evlog' = <<>>
    /\ snap' = Persistent
    /\ pc' = "loop"
    /\ UNCHANGED <<hp, storeVars, nextId, roots, todo, interceptors, spawned>>
    /\ UNCHANGED <<errorLog, outsideVars>>

\* 1. within the depth limit: the event enters the first phase
BeginEvent ==
    /\ pc = "loop"
    /\ queue # <<>>
    /\ ~TooDeep(Head(queue))
    /\ cur' = Head(queue)
    /\ queue' = Tail(queue)
    /\ pc' = FirstPhase
    /\ todo' = Handlers(FirstPhase, Head(queue))
    /\ interceptors' = <<>>
    /\ spawned' = <<>>
    /\ evlog' = <<>>
    /\ snap' = Persistent
    /\ UNCHANGED <<hp, storeVars, nextId, processed, roots>>
    /\ UNCHANGED <<errorLog, outsideVars>>

\* the handler of registration h raises when it is invoked
Throws(h) == h.effect \in faulty

\* log record of a handler failure: the offending effect, its owner, where
Failure(p, h) ==
    [effect |-> h.effect, owner |-> h.owner, phase |-> p, event |-> cur.id]

\* a failure that is not caught: it leaves drain() with the event unfinished
HandlerFailsHaltsDrain ==
    /\ errorLog' = Append(errorLog, Failure(pc, Head(todo)))
    /\ pc' = "idle"
    /\ todo' = <<>>
    /\ UNCHANGED <<hp, storeVars, queue, cur, interceptors, spawned, nextId,
                   evlog, processed, snap, roots, outsideVars>>

\* the failure of the handler at the head of todo, caught at the Pipeline
\* boundary: it is logged, the step is a no-op, the next handler is up
HandlerFails ==
    /\ errorLog' = Append(errorLog, Failure(pc, Head(todo)))
    /\ evlog' = Append(evlog, Entry(pc, Head(todo), TRUE))
    /\ todo' = Tail(todo)
    /\ UNCHANGED <<hp, storeVars, queue, pc, cur, interceptors, spawned,
                   nextId, processed, snap, roots, outsideVars>>

\* 2. one meta-modification handler sets up its interceptor
MetaModificationStep ==
    /\ pc = "metaModification"
    /\ todo # <<>>
    /\ IF Throws(Head(todo)) THEN HandlerFails
       ELSE /\ interceptors' = MetaHandler(Head(todo), cur, interceptors)
            /\ evlog' = Append(evlog, Entry(pc, Head(todo), TRUE))
            /\ todo' = Tail(todo)
            /\ UNCHANGED <<hp, storeVars, queue, pc, cur, spawned, nextId,
                           processed, snap, roots, errorLog, outsideVars>>

EndMetaModification ==
    /\ pc = "metaModification"
    /\ todo = <<>>
    /\ pc' = PhaseAfter(pc)
    /\ todo' = Handlers(PhaseAfter(pc), cur)
    /\ UNCHANGED <<hp, storeVars, queue, cur, interceptors, spawned, nextId,
                   evlog, processed, snap, roots>>
    /\ UNCHANGED <<errorLog, outsideVars>>

\* a modification handler that takes its delta from the target's hp at once
\* instead of leaving it to resolution
ModificationStepTouchesHp ==
    /\ pc = "modification"
    /\ todo # <<>>
    /\ cur' = ModHandler(Head(todo), cur, interceptors)
    /\ hp' = [hp EXCEPT ![cur.target] =
                 @ - (cur'.currentValues.damage - cur.currentValues.damage)]
    /\ evlog' = Append(evlog, Entry(pc, Head(todo), TRUE))
    /\ todo' = Tail(todo)
    /\ UNCHANGED <<storeVars, queue, pc, interceptors, spawned, nextId,
                   processed, snap, roots>>
    /\ UNCHANGED <<errorLog, outsideVars>>

\* a modification that changed the event is announced to the modification
\* effects again
ModificationStepRechecks ==
    /\ pc = "modification"
    /\ todo # <<>>
    /\ cur' = ModHandler(Head(todo), cur, interceptors)
    /\ evlog' = Append(evlog, Entry(pc, Head(todo), TRUE))
    /\ todo' = IF cur' # cur /\ Len(evlog) < MaxEffects
                THEN Handlers(pc, cur) ELSE Tail(todo)
    /\ UNCHANGED <<hp, storeVars, queue, pc, interceptors, spawned, nextId,
                   processed, snap, roots>>
    /\ UNCHANGED <<errorLog, outsideVars>>

\* 3. one modification handler modifies the event
ModificationStep ==
    /\ pc = "modification"
    /\ todo # <<>>
    /\ IF Throws(Head(todo)) THEN HandlerFails
       ELSE /\ cur' = ModHandler(Head(todo), cur, interceptors)
            /\ evlog' = Append(evlog, Entry(pc, Head(todo), TRUE))
            /\ todo' = Tail(todo)
            /\ UNCHANGED <<hp, storeVars, queue, pc, interceptors, spawned,
                           nextId, processed, snap, roots, errorLog,
                           outsideVars>>

\* the modification phase ending with the interceptors left in place
EndModificationKeepsInterceptors ==
    /\ pc = "modification"
    /\ todo = <<>>
    /\ pc' = PhaseAfter(pc)
    /\ todo' = Handlers(PhaseAfter(pc), cur)
    /\ UNCHANGED <<hp, storeVars, queue, cur, interceptors, spawned, nextId,
                   evlog, processed, snap, roots>>
    /\ UNCHANGED <<errorLog, outsideVars>>

\* the interceptors are discarded when the modification phase completes
EndModification ==
    /\ pc = "modification"
    /\ todo = <<>>
    /\ pc' = PhaseAfter(pc)
    /\ todo' = Handlers(PhaseAfter(pc), cur)
    /\ interceptors' = <<>>
    /\ UNCHANGED <<hp, storeVars, queue, cur, spawned, nextId, evlog, processed,
                   snap, roots>>
    /\ UNCHANGED <<errorLog, outsideVars>>

\* no short-circuit: the remaining validation handlers run whatever the answer
ValidationRestAll(rest, allow) == rest

\* the validation handlers left to run after one has answered
ValidationRest(rest, allow) == IF allow THEN rest ELSE <<>>

\* the shield counts the hit and, on the last one it blocks, removes itself
ShieldUsed(h) ==
    IF h.effect = "shield" /\ cur.target = h.owner
    THEN /\ effectState' = [effectState EXCEPT ![h.effect] = @ + 1]
         /\ IF effectState[h.effect] + 1 >= ShieldHits
            THEN /\ removeEffect(h.owner, h.effect)
                 /\ tags' = [tags EXCEPT ![h.owner] = Untagged(@, {h.effect})]
            ELSE UNCHANGED <<effects, effectsBySource, listeners, tags>>
         /\ UNCHANGED reAdded
    ELSE UNCHANGED storeVars

\* 4. one validation handler answers; false cancels the event
ValidationStep ==
    /\ pc = "validation"
    /\ todo # <<>>
    /\ IF Throws(Head(todo)) THEN HandlerFails
       ELSE /\ cur' = [cur EXCEPT !.cancelled = @ \/ ~Allow(Head(todo), cur)]
            /\ todo' = ValidationRest(Tail(todo), Allow(Head(todo), cur))
            /\ ShieldUsed(Head(todo))
            /\ evlog' = Append(evlog,
                               Entry(pc, Head(todo), Allow(Head(todo), cur)))
            /\ UNCHANGED <<hp, queue, pc, interceptors, spawned, nextId,
                           processed, snap, roots, errorLog, outsideVars>>

\* the cancelled marker not looked at: every event goes on to resolution
EndValidationIgnoresCancel ==
    /\ pc = "validation"
    /\ todo = <<>>
    /\ pc' = PhaseAfter(pc)
    /\ todo' = Handlers(PhaseAfter(pc), cur)
    /\ UNCHANGED <<hp, storeVars, queue, cur, interceptors, spawned, nextId,
                   evlog, processed, snap, roots>>
    /\ UNCHANGED <<errorLog, outsideVars>>

\* 5. if cancelled, skip to the next event in the queue
EndValidation ==
    /\ pc = "validation"
    /\ todo = <<>>
    /\ IF cur.cancelled
       THEN /\ pc' = "loop"
            /\ todo' = <<>>
            /\ processed' = Append(processed, Outcome(cur, "cancelled"))
       ELSE /\ pc' = PhaseAfter(pc)
            /\ todo' = Handlers(PhaseAfter(pc), cur)
            /\ UNCHANGED processed
    /\ UNCHANGED <<hp, storeVars, queue, cur, interceptors, spawned, nextId,
                   evlog, snap, roots>>
    /\ UNCHANGED <<errorLog, outsideVars>>

\* 6. resolution: apply the event to game state
Resolve ==
    /\ pc = "resolution"
    /\ hp' = Resolution(cur, hp)
    /\ evlog' = Append(evlog, Entry(pc, Builtin, TRUE))
    /\ pc' = PhaseAfter(pc)
    /\ todo' = Handlers(PhaseAfter(pc), cur)
    /\ UNCHANGED <<storeVars, queue, cur, interceptors, spawned, nextId,
                   processed, snap, roots>>
    /\ UNCHANGED <<errorLog, outsideVars>>

\* the reaction phase ending at the first handler that spawns an event
ReactionStepStopsAtSpawn ==
    /\ pc = "reaction"
    /\ todo # <<>>
    /\ spawned' = spawned \o ReactHandler(Head(todo), cur)
    /\ evlog' = Append(evlog, Entry(pc, Head(todo), TRUE))
    /\ todo' = IF ReactHandler(Head(todo), cur) = <<>> THEN Tail(todo) ELSE <<>>
    /\ UNCHANGED <<hp, storeVars, queue, pc, cur, interceptors, nextId,
                   processed, snap, roots>>
    /\ UNCHANGED <<errorLog, outsideVars>>

RECURSIVE ResolvedAll(_, _)
\* the hp after resolving the events es one after another
ResolvedAll(es, h) ==
    IF es = <<>> THEN h ELSE ResolvedAll(Tail(es), Resolution(Head(es), h))

\* a reaction handler whose spawned events are resolved inside the handler
\* call instead of waiting in the queue
ReactionStepResolvesSpawned ==
    /\ pc = "reaction"
    /\ todo # <<>>
    /\ spawned' = spawned \o ReactHandler(Head(todo), cur)
    /\ hp' = ResolvedAll(Children(ReactHandler(Head(todo), cur), cur, nextId),
                         hp)
    /\ evlog' = Append(evlog, Entry(pc, Head(todo), TRUE))
    /\ todo' = Tail(todo)
    /\ UNCHANGED <<storeVars, queue, pc, cur, interceptors, nextId,
                   processed, snap, roots>>
    /\ UNCHANGED <<errorLog, outsideVars>>

\* 7. one reaction handler runs; the events it spawns are collected
ReactionStep ==
    /\ pc = "reaction"
    /\ todo # <<>>
    /\ IF Throws(Head(todo)) THEN HandlerFails
       ELSE /\ spawned' = spawned \o ReactHandler(Head(todo), cur)
            /\ evlog' = Append(evlog, Entry(pc, Head(todo), TRUE))
            /\ todo' = Tail(todo)
            /\ UNCHANGED <<hp, storeVars, queue, pc, cur, interceptors,
                           nextId, processed, snap, roots, errorLog,
                           outsideVars>>

\* the spawned events put at the front of the queue: the chain is followed
\* depth-first
EndReactionChildrenFirst ==
    /\ pc = "reaction"
    /\ todo = <<>>
    /\ queue' = Children(spawned, cur, nextId) \o queue
    /\ nextId' = nextId + Len(spawned)
    /\ spawned' = <<>>
    /\ processed' = Append(processed, Outcome(cur, "reacted"))
    /\ pc' = PhaseAfter(pc)
    /\ UNCHANGED <<hp, storeVars, cur, todo, interceptors, evlog, snap,
                   roots>>
    /\ UNCHANGED <<errorLog, outsideVars>>

\* 8. add the spawned events to the queue; 9. continue with the next event
EndReaction ==
    /\ pc = "reaction"
    /\ todo = <<>>
    /\ queue' = queue \o Children(spawned, cur, nextId)
    /\ nextId' = nextId + Len(spawned)
    /\ spawned' = <<>>
    /\ processed' = Append(processed, Outcome(cur, "reacted"))
    /\ pc' = PhaseAfter(pc)
    /\ UNCHANGED <<hp, storeVars, cur, todo, interceptors, evlog, snap,
                   roots>>
    /\ UNCHANGED <<errorLog, outsideVars>>

----------------------------------------------------------------------------

NotGranted == {g \in Grants : g.effect \notin Range(effects[g.owner])}

Next ==
    \/ \E g \in NotGranted : AddEffect(g.owner, g.effect, g.source)
    \/ \E a \in Actors, s \in Sources : RemoveEffectsFromSource(a, s)
    \/ \E t \in RootEvents : Submit(t)
    \/ Drain
    \/ DrainReturn
    \/ DropTooDeep
    \/ BeginEvent
    \/ MetaModificationStep
    \/ EndMetaModification
    \/ ModificationStep
    \/ EndModification
    \/ ValidationStep
    \/ EndValidation
    \/ Resolve
    \/ ReactionStep
    \/ EndReaction

Spec == Init /\ [][Next]_vars


\* drain() runs to completion once called: its steps are never postponed forever
DrainStep ==
    \/ DrainReturn
    \/ DropTooDeep
    \/ BeginEvent
    \/ MetaModificationStep
    \/ EndMetaModification
    \/ ModificationStep
    \/ EndModification
    \/ ValidationStep
    \/ EndValidation
    \/ Resolve
    \/ ReactionStep
    \/ EndReaction

FairSpec == Spec /\ WF_vars(DrainStep)

----------------------------------------------------------------------------
(* Combat with failing handlers: the effects of a fight are in place, and   *)
(* the handlers of some of them raise whenever they are invoked.            *)

\* the grants made before the fight, in the order they were made
Installed ==
    << [owner |-> "B", effect |-> "amplify", source |-> "innate"],
       [owner |-> "A", effect |-> "addDamage", source |-> "item:sword1"],
       [owner |-> "A", effect |-> "threshold", source |-> "innate"],
       [owner |-> "Enemy", effect |-> "counterAttack", source |-> "innate"],
       [owner |-> "Enemy", effect |-> "respawn", source |-> "buff:echo"] >>

InstalledOf(a) == SelectSeq(Installed, LAMBDA g : g.owner = a)

InstalledFrom(a, src) == SelectSeq(InstalledOf(a), LAMBDA g : g.source = src)

EffectsOf(gs) == [i \in DOMAIN gs |-> gs[i].effect]

\* the state addEffect leaves after the grants of Installed, one after another
FaultInit ==
    /\ hp = [a \in Actors |-> BaseHp * Scale]
    /\ effects = [a \in Actors |-> EffectsOf(InstalledOf(a))]
    /\ effectsBySource =
          [a \in Actors |->
              [src \in {g.source : g \in Range(InstalledOf(a))} |->
                  EffectsOf(InstalledFrom(a, src))]]
    /\ listeners =
          [t \in EventTypes |->
              [i \in DOMAIN Installed |->
                  [effect |-> Installed[i].effect, owner |-> Installed[i].owner]]]
    /\ effectState = [e \in EffectIds |-> 0]
    /\ tags = [a \in Actors |->
                  [i \in DOMAIN InstalledOf(a) |->
                      [effect |-> InstalledOf(a)[i].effect,
                       source |-> InstalledOf(a)[i].source]]]
    /\ reAdded = FALSE
    /\ queue = <<>>
    /\ pc = "idle"
    /\ cur = NoEvent
    /\ todo = <<>>
    /\ interceptors = <<>>
    /\ spawned = <<>>
    /\ nextId = 0
    /\ evlog = <<>>
    /\ processed = <<>>
    /\ snap = [hp |-> hp, effects |-> effects,
               effectsBySource |-> effectsBySource, listeners |-> listeners]
    /\ roots = 0
    /\ faulty \in SUBSET Range(EffectsOf(Installed))
    /\ registry = KnownTypes
    /\ errorLog = <<>>
    /\ lastCall = NoCall
    /\ WorldInit

FaultNext ==
    \/ \E t \in RootEvents : Submit(t)
    \/ Drain
    \/ DrainReturn
    \/ DropTooDeep
    \/ BeginEvent
    \/ MetaModificationStep
    \/ EndMetaModification
    \/ ModificationStep
    \/ EndModification
    \/ ValidationStep
    \/ EndValidation
    \/ Resolve
    \/ ReactionStep
    \/ EndReaction

FaultSpec == FaultInit /\ [][FaultNext]_vars

----------------------------------------------------------------------------
(* The effect store alone: any sequence of addEffect, removeEffectsFromSource *)
(* and removeEffect calls, an effect added twice included.                    *)

\* the effects and the sources the callers pass in this specification
StoreGrants == {g \in Grants : g.effect \notin {"amplify", "shield", "respawn"}}

StoreSources == {"item:sword1", "innate"}

StoreNext ==
    \/ \E g \in StoreGrants, s \in StoreSources :
          AddEffect(g.owner, g.effect, s)
    \/ \E a \in Actors, s \in StoreSources : RemoveEffectsFromSource(a, s)
    \/ \E g \in StoreGrants : RemoveEffect(g.owner, g.effect)

StoreSpec == Init /\ [][StoreNext]_vars

----------------------------------------------------------------------------
(* Equipment and buffs alone: any sequence of equip, unequip, buff add and   *)
(* buff remove calls.                                                        *)

StatNext ==
    \/ \E a \in Characters, item \in Items : EquipItem(a, item)
    \/ \E a \in Characters, item \in Items : UnequipItem(a, item)
    \/ \E a \in Characters, buff \in Buffs : AddBuff(a, buff)
    \/ \E a \in Characters, buff \in Buffs : RemoveBuff(a, buff)

StatSpec == Init /\ [][StatNext]_vars

----------------------------------------------------------------------------
(* The turn scheduler, with the speed buffs that change the delays.         *)

\* the speed multipliers of the actions: fast attack, normal, slow attack
SpeedMultipliers == {50, 100, 200}

\* the extra ticks of delay(): a stun, and a pull ahead of more than any wait
ExtraTicks == {50 * Scale, -(2 * MaxTick * Scale)}

SchedNext ==
    \/ \E a \in Actors : AddActor(a)
    \/ \E a \in TurnTakers : RemoveActor(a)
    \/ Advance
    \/ \E a \in TurnTakers, m \in SpeedMultipliers : ScheduleNext(a, m)
    \/ \E a \in Characters : acting # "none" /\ GrantImmediateAction(a)
    \/ \E a \in Characters, x \in ExtraTicks :
          acting # "none" /\ DelayActor(a, x)
    \/ \E buff \in {"haste", "slow"} :
          buffs["A"] = <<>> /\ AddBuff("A", buff)
    \/ \E buff \in {"haste", "slow"} : RemoveBuff("A", buff)

SchedSpec == Init /\ [][SchedNext]_vars

----------------------------------------------------------------------------
(* A fight: the combat loop takes the actor advance() returns, submits its  *)
(* action, drains the pipeline and reschedules the actor.                   *)

GrantsTo(gs, a) == SelectSeq(gs, LAMBDA g : g.owner = a)

GrantsUnder(gs, a, src) == SelectSeq(GrantsTo(gs, a), LAMBDA g : g.source = src)

\* the store and the listener index addEffect leaves after the grants gs,
\* made one after another
StoreAfter(gs) ==
    /\ effects = [a \in Actors |-> EffectsOf(GrantsTo(gs, a))]
    /\ effectsBySource =
          [a \in Actors |->
              [src \in {g.source : g \in Range(GrantsTo(gs, a))} |->
                  EffectsOf(GrantsUnder(gs, a, src))]]
    /\ listeners =
          [t \in EventTypes |->
              SelectSeq([i \in DOMAIN gs |->
                            [effect |-> gs[i].effect, owner |-> gs[i].owner]],
                        LAMBDA h : t \in Listens(h.effect))]
    /\ effectState = [e \in EffectIds |-> 0]
    /\ tags = [a \in Actors |->
                  [i \in DOMAIN GrantsTo(gs, a) |->
                      [effect |-> GrantsTo(gs, a)[i].effect,
                       source |-> GrantsTo(gs, a)[i].source]]]
    /\ reAdded = FALSE

\* an empty pipeline, nothing submitted yet
PipelineAtRest ==
    /\ hp = [a \in Actors |-> BaseHp * Scale]
    /\ queue = <<>>
    /\ pc = "idle"
    /\ cur = NoEvent
    /\ todo = <<>>
    /\ interceptors = <<>>
    /\ spawned = <<>>
    /\ nextId = 0
    /\ evlog = <<>>
    /\ processed = <<>>
    /\ snap = [hp |-> hp, effects |-> effects,
               effectsBySource |-> effectsBySource, listeners |-> listeners]
    /\ roots = 0
    /\ faulty = {}
    /\ errorLog = <<>>
    /\ lastCall = NoCall

\* the grants made before the fight: the beach is a passive actor whose
\* effect listens to the fight
CombatInstalled ==
    << [owner |-> "B", effect |-> "amplify", source |-> "innate"],
       [owner |-> "A", effect |-> "addDamage", source |-> "item:sword1"],
       [owner |-> "Beach", effect |-> "threshold", source |-> "innate"],
       [owner |-> "Enemy", effect |-> "counterAttack", source |-> "innate"] >>

\* the beach grants a speed buff at the start of the fight
CombatInit ==
    /\ StoreAfter(CombatInstalled)
    /\ PipelineAtRest
    /\ registry = KnownTypes
    /\ equipment = [a \in Characters |-> <<>>]
    /\ buffs = [a \in Characters |-> IF a = "A" THEN <<"haste">> ELSE <<>>]
    /\ currentTick = 0
    /\ actorSchedule = <<>>
    /\ acting = "none"
    /\ granted = {}
    /\ sinceTurn = <<>>

CombatNext ==
    \/ \E a \in Actors : AddActor(a)
    \/ \E a \in TurnTakers : RemoveActor(a)
    \/ Advance
    \/ \E a \in TurnTakers : queue = <<>> /\ ScheduleNext(a, 100)
    \/ \E t \in RootEvents : acting = t.source /\ Submit(t)
    \/ Drain
    \/ DrainReturn
    \/ BeginEvent
    \/ MetaModificationStep
    \/ EndMetaModification
    \/ ModificationStep
    \/ EndModification
    \/ ValidationStep
    \/ EndValidation
    \/ Resolve
    \/ ReactionStep
    \/ EndReaction

CombatSpec == CombatInit /\ [][CombatNext]_vars

----------------------------------------------------------------------------
(* Handlers of equal priority: two characters carry the same modifiers.     *)

\* what the callers of addEffect grant in this specification
OrderGrants ==
    { [owner |-> "A", effect |-> "multiplyDamage", source |-> "item:sword1"],
      [owner |-> "A", effect |-> "addDamage", source |-> "item:sword1"],
      [owner |-> "B", effect |-> "addDamage", source |-> "item:ring1"],
      [owner |-> "A", effect |-> "amplify", source |-> "innate"],
      [owner |-> "B", effect |-> "amplify", source |-> "innate"] }

OrderNext ==
    \/ \E g \in {x \in OrderGrants : x.effect \notin Range(effects[x.owner])} :
          AddEffect(g.owner, g.effect, g.source)
    \/ \E t \in RootEvents : Submit(t)
    \/ Drain
    \/ DrainReturn
    \/ BeginEvent
    \/ MetaModificationStep
    \/ EndMetaModification
    \/ ModificationStep
    \/ EndModification
    \/ EndValidation
    \/ Resolve
    \/ EndReaction

OrderSpec == Init /\ [][OrderNext]_vars

----------------------------------------------------------------------------
(* The effect registry: factories are registered at start-up, and effects   *)
(* are built from the type names the item and buff definitions carry.       *)

\* the type names the definitions carry, one of them misspelt
NamedTypes == KnownTypes \cup {"onAttack_addDamge"}

\* a registry instance with nothing registered yet
RegistryInit ==
    /\ StoreAfter(<<>>)
    /\ PipelineAtRest
    /\ registry = {}
    /\ WorldInit

\* EffectRegistry.register(effectType, factory)
Register(type) ==
    /\ pc = "idle"
    /\ registry' = registry \cup {type}
    /\ lastCall' = Call("register", "none", <<type>>)
    /\ UNCHANGED <<hp, queue, pc, nextId, processed, roots, eventVars,
                   storeVars, faulty, statVars, schedVars>>

\* const effect = createEffect(def, this); this.addEffect(effect, source)
GrantFromData(owner, type, source) ==
    /\ pc = "idle"
    /\ EffectCount < MaxEffects
    /\ IndexCount < MaxEffects
    /\ roots = 0
    /\ LET made == create(registry, type) IN
          /\ IF made.ok
                THEN /\ addEffect(owner, made.effect, source)
                     /\ effectState' = [effectState EXCEPT ![made.effect] = 0]
                     /\ tags' = [tags EXCEPT ![owner] =
                                     Append(@, [effect |-> made.effect,
                                                source |-> source])]
                     /\ reAdded' =
                           (reAdded \/ \E i \in DOMAIN tags[owner] :
                                          /\ tags[owner][i].effect = made.effect
                                          /\ tags[owner][i].source # source)
                ELSE UNCHANGED storeVars
          /\ lastCall' = Call("create", owner, <<type, made>>)
    /\ UNCHANGED <<hp, queue, pc, nextId, processed, roots, eventVars>>
    /\ UNCHANGED worldVars

RegistryNext ==
    \/ \E type \in KnownTypes : Register(type)
    \/ \E owner \in Characters, type \in NamedTypes,
          source \in StoreSources : GrantFromData(owner, type, source)
    \/ \E a \in Characters, s \in StoreSources : RemoveEffectsFromSource(a, s)

RegistrySpec == RegistryInit /\ [][RegistryNext]_vars

----------------------------------------------------------------------------
(* Worked scenarios of the design: life steal, amplified bonus, chained     *)
(* attacks and counter-attacks on both sides.  Each starts with its effects *)
(* granted; the attacks are then submitted and drained.                     *)

LifeStealGrants ==
    << [owner |-> "A", effect |-> "percentDamage", source |-> "item:sword1"],
       [owner |-> "A", effect |-> "lifeSteal", source |-> "innate"] >>

AmplifyGrants ==
    << [owner |-> "A", effect |-> "percentDamage", source |-> "item:sword1"],
       [owner |-> "B", effect |-> "amplify", source |-> "innate"] >>

ChainGrants ==
    << [owner |-> "A", effect |-> "chain", source |-> "innate"] >>

RetaliationGrants ==
    << [owner |-> "A", effect |-> "counterAttack", source |-> "innate"],
       [owner |-> "Enemy", effect |-> "counterAttack", source |-> "innate"] >>

Scenarios ==
    {LifeStealGrants, AmplifyGrants, ChainGrants, RetaliationGrants}

\* "Attack for 50 damage"; "Character A attacks for 100 damage"
ScenarioRoots ==
    { Template("damage", "A", "Enemy", 50 * Scale, {}),
      Template("damage", "A", "Enemy", 100 * Scale, {}) }

ScenarioInit ==
    /\ \E gs \in Scenarios : StoreAfter(gs)
    /\ PipelineAtRest
    /\ registry = KnownTypes
    /\ WorldInit

ScenarioNext ==
    \/ \E t \in ScenarioRoots : Submit(t)
    \/ Drain
    \/ DrainReturn
    \/ BeginEvent
    \/ MetaModificationStep
    \/ EndMetaModification
    \/ ModificationStep
    \/ EndModification
    \/ EndValidation
    \/ Resolve
    \/ ReactionStep
    \/ EndReaction

ScenarioSpec == ScenarioInit /\ [][ScenarioNext]_vars

----------------------------------------------------------------------------
(* The delay computation over a range of speeds: the loop calls advance()   *)
(* and scheduleNext on the returned actor, whose effective speed and action *)
(* multiplier are any of the values below.                                  *)

\* effective speeds (fixed point): the listed 50, 100 and 200, and a very
\* fast actor
Speeds == {50 * Scale, 100 * Scale, 200 * Scale, 20000 * Scale}

\* the actors of this fight
Fighters == {"A", "Enemy"}

TempoNext ==
    \/ \E a \in Fighters : AddActor(a)
    \/ Advance
    \/ \E a \in Fighters, speed \in Speeds, m \in SpeedMultipliers :
          ScheduleNextAt(a, speed, m)

TempoSpec == Init /\ [][TempoNext]_vars

----------------------------------------------------------------------------
(* The combat loop: advance(), the returned actor acts, scheduleNext on it, *)
(* again and again.  The turns of the fighters are observed.               *)

\* no actor scheduled; the fighters are observed and none has had a turn
LoopInit ==
    /\ StoreAfter(<<>>)
    /\ PipelineAtRest
    /\ registry = KnownTypes
    /\ equipment = [a \in Characters |-> <<>>]
    /\ buffs = [a \in Characters |-> <<>>]
    /\ currentTick = 0
    /\ actorSchedule = <<>>
    /\ acting = "none"
    /\ granted = {}
    /\ sinceTurn = [a \in Fighters |->
                        [d |-> -1, n |-> [y \in Fighters |-> 0]]]

LoopNext ==
    \/ \E a \in Fighters : AddActor(a)
    \/ AdvanceWithin(MaxLoopTick)
    \/ \E a \in Fighters, speed \in {100 * Scale, 200 * Scale},
           m \in SpeedMultipliers :
          ScheduleNextAt(a, speed, m)

\* the loop keeps running: a call that can be made is made
LoopSpec == LoopInit /\ [][LoopNext]_vars /\ WF_vars(LoopNext)

----------------------------------------------------------------------------
(* The same effect granted more than once, then events through the pipeline *)

\* the effects the callers pass in this specification
RepeatGrants ==
    { [owner |-> "A", effect |-> "addDamage"],
      [owner |-> "Enemy", effect |-> "counterAttack"] }

RepeatNext ==
    \/ \E g \in RepeatGrants, s \in StoreSources :
          AddEffect(g.owner, g.effect, s)
    \/ \E g \in RepeatGrants : RemoveEffect(g.owner, g.effect)
    \/ \E t \in RootEvents : Submit(t)
    \/ Drain
    \/ DrainReturn
    \/ BeginEvent
    \/ EndMetaModification
    \/ ModificationStep
    \/ EndModification
    \/ EndValidation
    \/ Resolve
    \/ ReactionStep
    \/ EndReaction

RepeatSpec == Init /\ [][RepeatNext]_vars

----------------------------------------------------------------------------
(* Properties *)

Outcomes == {"dropped", "cancelled", "reacted"}

OutcomesOf(id) == {i \in DOMAIN processed : processed[i].id = id}

\* every event submitted so far has left the pipeline with exactly one outcome
Accounted ==
    /\ \A id \in 0 .. (nextId - 1) : Cardinality(OutcomesOf(id)) = 1
    /\ \A i \in DOMAIN processed : processed[i].outcome \in Outcomes

HasOutcome(o) == \E i \in DOMAIN processed : processed[i].outcome = o

\* control goes back to the caller of drain()
DrainReturns == pc # "idle" /\ pc' = "idle"

\* C1: when drain() returns the queue is empty, and every event that was
\* queued at the call or submitted by a reaction handler during the call has
\* been dequeued and has ended in exactly one of the three outcomes dropped,
\* cancelled, or resolved and reacted to.
C1_DrainExhaustsQueue ==
    [][DrainReturns => (queue' = <<>> /\ Accounted')]_vars

\* a drain() has returned after dropping, cancelling and reacting to events,
\* some of them submitted by reaction handlers during the call
C1_Witness ==
    /\ pc = "idle"
    /\ queue = <<>>
    /\ HasOutcome("dropped") /\ HasOutcome("cancelled") /\ HasOutcome("reacted")
    /\ \E i \in DOMAIN processed :
          processed[i].depth > 0 /\ processed[i].outcome = "reacted"

\* C2: drain() always terminates: whatever effects are registered, also a
\* reaction that re-spawns the event type on every event with no blocking
\* flag, a drain() that has been called eventually returns.
C2_DrainTerminates == (pc # "idle") ~> (pc = "idle")

\* a drain() has returned although the re-spawning reaction was registered
\* and its chain ran up to the depth guard
C2_Witness ==
    /\ pc = "idle"
    /\ queue = <<>>
    /\ "respawn" \in Range(effects["Enemy"])
    /\ \E i \in DOMAIN processed : processed[i].depth = MaxDepth + 1

\* C3: with the maximum of 10, an event of depth greater than 10 is dropped
\* before any phase runs (no handler ran for it, nothing was resolved); the
\* dropped events of a re-spawning chain are the ones at depth 11, and events
\* of depth 0 through 10 go through the phases.
C3_DepthGuard ==
    /\ \A i \in DOMAIN processed :
          /\ processed[i].depth > 10 <=> processed[i].outcome = "dropped"
          /\ processed[i].outcome = "dropped" => processed[i].depth = 11
    /\ (cur # NoEvent /\ cur.depth > 10) =>
          /\ evlog = <<>>
          /\ pc \in {"loop", "idle"}
          /\ Persistent = snap
    /\ \A i \in DOMAIN queue : queue[i].depth <= 11

\* the event at depth 10 went through the phases and was reacted to; its
\* child at depth 11 was dropped
C3_Witness ==
    /\ \E i \in DOMAIN processed :
          processed[i].depth = 10 /\ processed[i].outcome = "reacted"
    /\ \E i \in DOMAIN processed :
          processed[i].depth = 11 /\ processed[i].outcome = "dropped"
    /\ cur.depth = 11 /\ evlog = <<>>

\* the event at the head of the queue is over the depth limit
BreachAtHead == pc = "loop" /\ queue # <<>> /\ Head(queue).depth > 10

\* C4: a depth-limit breach aborts only the offending event: the step that
\* drops it leaves every other queued event in the queue, in order, leaves
\* the actors, the listener index and the id counter as they were, and the
\* drain loop goes on with the next event.
C4_BreachDropsOnlyOffender ==
    [][BreachAtHead =>
          /\ queue' = Tail(queue)
          /\ pc' = "loop"
          /\ Persistent' = Persistent
          /\ <<effectState, nextId>>' = <<effectState, nextId>>]_vars

\* an event has just been dropped while other events were queued behind it,
\* after an earlier breach whose queued neighbours were dequeued in their turn
C4_Witness ==
    /\ pc = "loop"
    /\ cur # NoEvent /\ cur.depth > 10
    /\ queue # <<>>
    /\ Len(processed) >= 2
    /\ processed[Len(processed)].id = cur.id
    /\ processed[Len(processed) - 1].outcome = "dropped"


Rank(p) ==
    CASE p = "metaModification" -> 1
      [] p = "modification" -> 2
      [] p = "validation" -> 3
      [] p = "resolution" -> 4
      [] p = "reaction" -> 5

HandlerPhases == {"metaModification", "modification", "validation", "reaction"}

\* the invocations of phase p logged for the current event
LogOf(p) == SelectSeq(evlog, LAMBDA e : e.phase = p)

\* the handlers registered for the current event's type in phase p when the
\* event was dequeued
Due(p) == HandlersIn(snap.listeners, p, cur.type)

\* the first n handlers due in phase p have run, each once, in their order
RanFirst(p, n) ==
    /\ Len(LogOf(p)) = n
    /\ n <= Len(Due(p))
    /\ \A k \in 1 .. n :
          /\ LogOf(p)[k].effect = Due(p)[k].effect
          /\ LogOf(p)[k].owner = Due(p)[k].owner

RanAll(p) == RanFirst(p, Len(Due(p)))

\* C5: phases run in the order meta-modification, modification, validation,
\* resolution, reaction: no handler of a later phase runs before every
\* handler of each earlier phase has run, a validation handler sees the
\* current values as they are after all modifications, and a reaction
\* handler sees the target with the resolution applied.
C5_PhaseOrder ==
    /\ \A i, j \in DOMAIN evlog :
          i < j => Rank(evlog[i].phase) <= Rank(evlog[j].phase)
    /\ \A i \in DOMAIN evlog :
          /\ \A q \in HandlerPhases :
                Rank(q) < Rank(evlog[i].phase) => RanAll(q)
          /\ evlog[i].phase = "validation" => evlog[i].seen = cur.currentValues
          /\ evlog[i].phase = "reaction" =>
                /\ Len(LogOf("resolution")) = 1
                /\ evlog[i].hpSeen =
                       snap.hp[cur.target] - cur.currentValues.damage

\* a modification, a validation that saw the modified value, the resolution
\* and a reaction have run for one event, in that order
C5_Witness ==
    /\ Len(evlog) = 4
    /\ evlog[1].phase = "modification"
    /\ evlog[2].phase = "validation"
    /\ evlog[2].seen # cur.baseValues
    /\ evlog[3].phase = "resolution"
    /\ evlog[4].phase = "reaction"

\* the modification phase of the current event is over
PastModification ==
    /\ cur # NoEvent
    /\ cur.depth <= MaxDepth
    /\ pc \notin {"metaModification", "modification"}

\* effect e of owner a was registered when the current event was dequeued
Registered(e, a) ==
    [effect |-> e, owner |-> a] \in Range(snap.listeners["damage"])

Position(e) ==
    CHOOSE i \in DOMAIN snap.listeners["damage"] :
        snap.listeners["damage"][i].effect = e

\* C6: with the priority-100 multiply-by-1.5 and the priority-50 add-10 both
\* registered (and no interceptor), a damage event of base 50 from their owner
\* ends the modification phase at exactly 85 in whichever order the two were
\* registered, the multiplier running first, and 85 is what resolution takes
\* from the target.
C6_MultiplierBeforeAddition ==
    (/\ PastModification
     /\ cur.source = "A"
     /\ cur.baseValues.damage = 50 * Scale
     /\ Registered("multiplyDamage", "A")
     /\ Registered("addDamage", "A")
     /\ ~Registered("amplify", "B"))
    => /\ cur.currentValues.damage = 85 * Scale
       /\ LogOf("modification")[1].effect = "multiplyDamage"
       /\ LogOf("modification")[2].effect = "addDamage"
       /\ Len(LogOf("resolution")) = 1 =>
             hp[cur.target] = snap.hp[cur.target] - 85 * Scale

\* add-10 was registered before multiply-by-1.5 and the event was resolved for 85
C6_Witness ==
    /\ PastModification
    /\ cur.baseValues.damage = 50 * Scale
    /\ Registered("multiplyDamage", "A")
    /\ Registered("addDamage", "A")
    /\ Position("addDamage") < Position("multiplyDamage")
    /\ Len(LogOf("resolution")) = 1
    /\ hp[cur.target] = snap.hp[cur.target] - 85 * Scale

\* C7: the first validation handler that returns false sets the event's
\* cancelled marker, and no validation handler after it is invoked for that
\* event; the marker is set by nothing else.
C7_FirstCancelWins ==
    /\ \A i \in DOMAIN evlog :
          (evlog[i].phase = "validation" /\ ~evlog[i].result) =>
              /\ cur.cancelled
              /\ \A j \in DOMAIN evlog : j > i => evlog[j].phase # "validation"
    /\ (cur # NoEvent /\ cur.cancelled) =>
          \E i \in DOMAIN evlog :
              evlog[i].phase = "validation" /\ ~evlog[i].result

\* two validation handlers were due, the first returned false, the event
\* left the pipeline cancelled and the second was never invoked
C7_Witness ==
    /\ pc = "loop"
    /\ cur # NoEvent /\ cur.cancelled
    /\ Len(Due("validation")) = 2
    /\ Len(LogOf("validation")) = 1
    /\ LogOf("validation")[1].effect = Due("validation")[1].effect

\* the current event has been through its reaction phase
Reacted ==
    /\ cur # NoEvent
    /\ pc \in {"loop", "idle"}
    /\ \E i \in DOMAIN processed :
          processed[i].id = cur.id /\ processed[i].outcome = "reacted"

\* C9: the reaction phase never short-circuits: for every resolved event each
\* effect registered for its type in the reaction phase is invoked exactly
\* once, whatever earlier reaction handlers submitted.
C9_ReactionRunsAll ==
    /\ Reacted => RanAll("reaction")
    /\ (cur # NoEvent /\ pc = "reaction") =>
          RanFirst("reaction", Len(Due("reaction")) - Len(todo))

\* two reaction handlers ran for one event although the first one had
\* already submitted an event: two children of the event are in the queue
C9_Witness ==
    /\ Reacted
    /\ Len(LogOf("reaction")) = 2
    /\ Cardinality({i \in DOMAIN queue : queue[i].parentEvent = cur.id}) = 2


\* the effect store and the listener index are as they were at the dequeue
StoreKept ==
    /\ effects = snap.effects
    /\ effectsBySource = snap.effectsBySource
    /\ listeners = snap.listeners

\* the store differs from the one at the dequeue by effect e of actor a
\* having removed itself
SelfRemoved(a, e) ==
    /\ effects = [snap.effects EXCEPT ![a] = Without(@, e)]
    /\ effectsBySource =
          [snap.effectsBySource EXCEPT ![a] =
              [s \in DOMAIN @ |-> Without(@[s], e)]]
    /\ listeners = unregisterEffect(snap.listeners, e, a)

\* the store is as at the dequeue, or a validation handler that has run for
\* the current event and answered false has removed its own effect
StoreKeptButSelfRemoval ==
    \/ StoreKept
    \/ \E i \in DOMAIN evlog :
          /\ evlog[i].phase = "validation"
          /\ ~evlog[i].result
          /\ SelfRemoved(evlog[i].owner, evlog[i].effect)

CancelledIds ==
    {processed[i].id : i \in {k \in DOMAIN processed :
                                  processed[k].outcome = "cancelled"}}

\* no resolution, no reaction and no child for a cancelled event
CancelledSkipsRest ==
    /\ (cur # NoEvent /\ cur.cancelled) =>
          /\ LogOf("resolution") = <<>>
          /\ LogOf("reaction") = <<>>
          /\ \A i \in DOMAIN queue : queue[i].parentEvent # cur.id
    /\ \A i \in DOMAIN queue : queue[i].parentEvent \notin CancelledIds

\* C8 as claimed: a cancelled event is never resolved and never reacted to,
\* no child of it is enqueued, and the actors' persistent state (hp, effect
\* collections, listener registrations) is the same after the event leaves
\* the pipeline as before it was dequeued.
C8_CancelledLeavesActorsUntouched ==
    /\ CancelledSkipsRest
    /\ (cur # NoEvent /\ cur.cancelled) => Persistent = snap

\* C8 amended: a cancelled event is never resolved and never reacted to, no
\* child of it is enqueued and every actor's hp is the same as before it was
\* dequeued; the effect collections are the same except that the validation
\* effect that cancelled the event may have removed itself.
C8_CancelledSkipsResolutionAndReaction ==
    /\ CancelledSkipsRest
    /\ (cur # NoEvent /\ cur.cancelled) =>
          /\ hp = snap.hp
          /\ StoreKeptButSelfRemoval

\* an event was cancelled by a validation handler while a reaction handler
\* was registered for its type, and it has left the pipeline
C8_Witness ==
    /\ pc = "loop"
    /\ cur # NoEvent /\ cur.cancelled
    /\ cur.id \in CancelledIds
    /\ Len(Due("reaction")) > 0
    /\ hp = snap.hp

\* C10 as claimed: across the depth guard, meta-modification, modification
\* and validation of any event every actor's hp and effect collections are
\* unchanged.
C10_OnlyResolutionChangesActors ==
    (cur # NoEvent /\ LogOf("resolution") = <<>>) => Persistent = snap

\* C10 amended: across the depth guard, meta-modification, modification and
\* validation of any event every actor's hp is unchanged, and the effect
\* collections are unchanged except that a validation effect that answers
\* false may remove itself; once resolved, hp differs by the resolution alone.
C10_OnlyResolutionChangesHp ==
    /\ (cur # NoEvent /\ LogOf("resolution") = <<>>) =>
          /\ hp = snap.hp
          /\ StoreKeptButSelfRemoval
    /\ (cur # NoEvent /\ LogOf("resolution") # <<>>) =>
          hp = Resolution(cur, snap.hp)

\* meta-modification, modification and validation handlers have all run for
\* an event that changed under them, and the actors are as at the dequeue
C10_Witness ==
    /\ pc = "validation"
    /\ todo = <<>>
    /\ LogOf("metaModification") # <<>>
    /\ LogOf("modification") # <<>>
    /\ LogOf("validation") # <<>>
    /\ cur.currentValues # cur.baseValues
    /\ Persistent = snap

----------------------------------------------------------------------------
(* Failing handlers *)

\* the handler about to be invoked raises
ThrowStep == pc \in HandlerPhases /\ todo # <<>> /\ Throws(Head(todo))

\* the current event leaves its reaction phase
LeavesReaction == pc = "reaction" /\ pc' # "reaction"

\* C11: a failing handler never halts the drain loop: the step of a handler
\* that throws changes neither the event nor the actors nor the queue and is
\* logged with the effect and its owner, the handlers behind it in the phase
\* are still to run and drain() stays in the phase; an event that is not
\* cancelled leaves the pipeline with every handler of every phase invoked
\* and the resolution applied; and when drain() returns the queue is empty
\* and every event has its outcome.
C11_FailingHandlerIsSkipped ==
    [][/\ ThrowStep =>
              /\ <<cur, interceptors, spawned, queue, pc>>' =
                     <<cur, interceptors, spawned, queue, pc>>
              /\ Persistent' = Persistent
              /\ effectState' = effectState
              /\ todo' = Tail(todo)
              /\ Len(errorLog') = Len(errorLog) + 1
              /\ errorLog'[Len(errorLog')].effect = Head(todo).effect
              /\ errorLog'[Len(errorLog')].owner = Head(todo).owner
       /\ LeavesReaction =>
              /\ \A q \in HandlerPhases : RanAll(q)
              /\ Len(LogOf("resolution")) = 1
              /\ pc' = "loop"
       /\ DrainReturns => (queue' = <<>> /\ Accounted')]_vars

\* drain() has returned; for the first event a handler failed in each of the
\* four handler phases and the event was still resolved and reacted to, and
\* an event queued behind it was processed as well
C11_Witness ==
    /\ pc = "idle"
    /\ queue = <<>>
    /\ \A q \in HandlerPhases :
          \E i \in DOMAIN errorLog :
              errorLog[i].phase = q /\ errorLog[i].event = 0
    /\ \E i, j \in DOMAIN processed :
          /\ processed[i].id = 0 /\ processed[i].outcome = "reacted"
          /\ processed[j].id > 0 /\ processed[j].outcome = "reacted"

----------------------------------------------------------------------------
(* Effect store *)

\* the step is the call removeEffectsFromSource(S) on actor a
RemoveCall(a, S) ==
    /\ pc = "idle" /\ pc' = "idle" /\ roots' = roots
    /\ lastCall'.op = "removeEffectsFromSource"
    /\ lastCall'.actor = a
    /\ lastCall'.arg[1] = S

\* the effects in a's flat collection that were added with source S
AddedWith(a, S) ==
    {tags[a][i].effect : i \in {k \in DOMAIN tags[a] : tags[a][k].source = S}}

\* the registrations of actor a's effects in the listener index
RegisteredOf(idx, a) ==
    UNION {{idx[t][i].effect : i \in {k \in DOMAIN idx[t] : idx[t][k].owner = a}}
           : t \in EventTypes}

\* every handler invoked for the current event belongs to an effect that was
\* in its owner's flat collection when the event was dequeued
FiredAreStored ==
    \A i \in DOMAIN evlog :
        \/ evlog[i].effect = Builtin.effect
        \/ evlog[i].effect \in Range(snap.effects[evlog[i].owner])

\* C12: right after removeEffectsFromSource(S) on an actor no effect that was
\* added with source S is in the actor's flat collection, the source index
\* has no bucket for S and none of those effects is in the listener index;
\* and the handlers invoked for an event are those of effects that were in
\* their owner's collection when the event was dequeued.
C12_EffectCleanup ==
    [][/\ \A a \in Actors, S \in Sources :
              RemoveCall(a, S) =>
                  /\ AddedWith(a, S) \cap Range(effects'[a]) = {}
                  /\ S \notin DOMAIN effectsBySource'[a]
                  /\ AddedWith(a, S) \cap RegisteredOf(listeners', a) = {}
       /\ FiredAreStored']_vars

\* removeEffectsFromSource("item:sword1") has just taken the two effects of
\* the sword out of A's store, which keeps the effect of another source
C12_Witness ==
    /\ lastCall.op = "removeEffectsFromSource"
    /\ lastCall.actor = "A"
    /\ lastCall.arg[1] = "item:sword1"
    /\ Len(lastCall.arg[2]) = 2
    /\ effects["A"] = <<"threshold">>
    /\ listeners["damage"] = <<[effect |-> "threshold", owner |-> "A"]>>
    /\ DOMAIN effectsBySource["A"] = {"innate"}

\* every entry of a's flat collection is in the bucket of the source it was
\* added with, and every entry of a bucket of a is in a's flat collection
PartitionConsistent(a) ==
    /\ \A i \in DOMAIN tags[a] :
          tags[a][i].effect \in Range(Bucket(a, tags[a][i].source))
    /\ \A S \in DOMAIN effectsBySource[a] :
          Range(effectsBySource[a][S]) \subseteq Range(effects[a])

\* C13 as claimed: after any sequence of addEffect, removeEffectsFromSource
\* and removeEffect calls the source index of every actor is
\* partition-consistent with its flat collection.
C13_IndexAlwaysConsistent == \A a \in Actors : PartitionConsistent(a)

\* C13 amended: after any sequence of addEffect, removeEffectsFromSource and
\* removeEffect calls in which no effect was added under a second source
\* while it was in the collection under another one, the source index of
\* every actor is partition-consistent with its flat collection.
C13_IndexConsistentUnlessReAdded ==
    ~reAdded => \A a \in Actors : PartitionConsistent(a)

\* A holds two effects added under one source after removeEffect has emptied
\* the bucket of another source, and no effect was ever added under two sources
C13_Witness ==
    /\ ~reAdded
    /\ lastCall.op = "removeEffect"
    /\ lastCall.actor = "A"
    /\ Len(effects["A"]) = 2
    /\ \E S \in DOMAIN effectsBySource["A"] : effectsBySource["A"][S] = <<>>
    /\ \E S \in DOMAIN effectsBySource["A"] : Len(effectsBySource["A"][S]) = 2

\* the actors that hold effect e in their flat collection
Holders(e) == {a \in Actors : e \in Range(effects[a])}

\* C14: no dangling registrations: a registration in the listener index is
\* of an effect that is in the flat collection of its owner and of no other
\* actor, and every effect in a flat collection is registered for its owner
\* under each event type it listens for; so every removal from a store has
\* taken the registration with it.
C14_NoDanglingRegistrations ==
    /\ \A t \in EventTypes : \A i \in DOMAIN listeners[t] :
          Holders(listeners[t][i].effect) = {listeners[t][i].owner}
    /\ \A a \in Actors : \A e \in Range(effects[a]) : \A t \in Listens(e) :
          [effect |-> e, owner |-> a] \in Range(listeners[t])

\* removeEffectsFromSource has taken two effects out of A's store and out of
\* the listener index, which keeps the registration of the Enemy's effect
C14_Witness ==
    /\ lastCall.op = "removeEffectsFromSource"
    /\ lastCall.actor = "A"
    /\ Len(lastCall.arg[2]) = 2
    /\ effects["A"] = <<>>
    /\ effects["Enemy"] = <<"counterAttack">>
    /\ listeners["damage"] = <<[effect |-> "counterAttack", owner |-> "Enemy"]>>

----------------------------------------------------------------------------
(* Stat aggregation *)

RECURSIVE SumFlat(_, _, _)
\* the sum of the flat grants for stat of the items at positions idx of
\* a's equipment, an absent grant counting as 0
SumFlat(a, idx, stat) ==
    IF idx = {} THEN 0
    ELSE LET i == CHOOSE k \in idx : TRUE
             g == ItemFlat(equipment[a][i])
         IN (IF stat \in DOMAIN g THEN g[stat] ELSE 0)
            + SumFlat(a, idx \ {i}, stat)

RECURSIVE ProductPercent(_, _, _)
\* the product of the percent grants for stat of the buffs at positions idx
\* of a's buffs, an absent grant counting as 1.0
ProductPercent(a, idx, stat) ==
    IF idx = {} THEN 1
    ELSE LET i == CHOOSE k \in idx : TRUE
             g == BuffPercent(buffs[a][i])
         IN (IF stat \in DOMAIN g THEN g[stat] ELSE 100)
            * ProductPercent(a, idx \ {i}, stat)

\* (base + class flat + flats of the equipped items) times the product of
\* the percents of the active buffs
ExpectedStat(a, stat) ==
    LET c == ClassFlat(a)
        flat == BaseStats(a)[stat]
                  + (IF stat \in DOMAIN c THEN c[stat] ELSE 0)
                  + SumFlat(a, DOMAIN equipment[a], stat)
    IN (flat * Scale * ProductPercent(a, DOMAIN buffs[a], stat))
           \div Pow100(Len(buffs[a]))

\* C15: after any sequence of equip, unequip and buff add/remove calls,
\* effectiveStat(actor, stat) is (base stat + class flat grant + sum of the
\* flat grants of the currently equipped items) multiplied by the product of
\* the percent grants of the currently active buffs, an absent grant counting
\* as 0 for flat and 1.0 for percent.
C15_EffectiveStatFromCurrentState ==
    \A a \in Characters : \A stat \in Stats :
        effectiveStat(a, stat) = ExpectedStat(a, stat)


\* ---- scheduler properties (checked under SchedSpec) ----

\* the ticks-remaining of actor a in schedule sched
TicksIn(sched, a) ==
    sched[CHOOSE i \in DOMAIN sched : sched[i].actor = a].ticks

\* a step of advance(): the only step that hands the turn to an actor
AdvanceStep == acting = "none" /\ acting' # "none"

\* C16: advance() returns an actor whose ticks-remaining is minimal among
\* the scheduled actors, moves the current tick forward by exactly that
\* minimum and takes the same minimum off every scheduled actor, so the
\* returned actor is at 0 and the differences between actors are kept; the
\* current tick never decreases in any step.
C16_AdvanceToMinimum ==
    [][/\ currentTick' >= currentTick
       /\ AdvanceStep =>
            LET m == TicksIn(actorSchedule, acting') IN
            /\ \A i \in DOMAIN actorSchedule : m <= actorSchedule[i].ticks
            /\ currentTick' = currentTick + m
            /\ DOMAIN actorSchedule' = DOMAIN actorSchedule
            /\ \A i \in DOMAIN actorSchedule :
                  /\ actorSchedule'[i].actor = actorSchedule[i].actor
                  /\ actorSchedule'[i].ticks = actorSchedule[i].ticks - m
            /\ TicksIn(actorSchedule', acting') = 0
            /\ \A i, j \in DOMAIN actorSchedule :
                  actorSchedule'[i].ticks - actorSchedule'[j].ticks
                      = actorSchedule[i].ticks - actorSchedule[j].ticks]_vars

\* advance() has just moved time forward and returned one of at least two
\* actors, another of which still has ticks left
C16_Witness ==
    /\ lastCall.op = "advance"
    /\ lastCall.arg > 0
    /\ acting # "none"
    /\ currentTick > 0
    /\ TicksIn(actorSchedule, acting) = 0
    /\ \E i \in DOMAIN actorSchedule : actorSchedule[i].ticks > 0


\* the place of actor a in registration order
PlaceIn(sched, a) == CHOOSE i \in DOMAIN sched : sched[i].actor = a

\* C17: when several scheduled actors share the minimum ticks-remaining,
\* an advance() call returns exactly one of them, the earliest registered;
\* an advance() call that finds actors already at 0 (the others of the tie)
\* returns the earliest registered of those, leaves the current tick as it
\* is and reduces no actor's ticks-remaining again.
C17_TiesInRegistrationOrder ==
    [][AdvanceStep =>
          LET m == TicksIn(actorSchedule, acting') IN
          /\ acting' \in {actorSchedule[i].actor : i \in DOMAIN actorSchedule}
          /\ \A j \in DOMAIN actorSchedule :
                actorSchedule[j].ticks <= m
                    => PlaceIn(actorSchedule, acting') <= j
          /\ (\E j \in DOMAIN actorSchedule : actorSchedule[j].ticks = 0)
                => /\ m = 0
                   /\ currentTick' = currentTick
                   /\ actorSchedule' = actorSchedule]_vars

\* the second advance() of a tie: time had moved forward to two actors at
\* once, the first was returned and rescheduled, and the other one is now
\* returned with no time passing
C17_Witness ==
    /\ lastCall.op = "advance"
    /\ lastCall.arg = 0
    /\ granted = {}
    /\ currentTick > 0
    /\ acting # "none"
    /\ PlaceIn(actorSchedule, acting) > 1
    /\ \A i \in DOMAIN actorSchedule :
          actorSchedule[i].actor # acting => actorSchedule[i].ticks > 0


\* a step of scheduleNext(acting, m): the turn is handed back
ScheduleNextStep ==
    /\ acting # "none"
    /\ acting' = "none"
    /\ lastCall'.op = "scheduleNext"

\* the delays the design lists, by speed and multiplier (both in hundredths)
ListedDelay(speed, m) ==
    CASE speed = 100 * Scale /\ m = 100 -> 100 * Scale
      [] speed = 200 * Scale /\ m = 100 -> 50 * Scale
      [] speed = 50 * Scale /\ m = 100 -> 200 * Scale
      [] speed = 100 * Scale /\ m = 50 -> 50 * Scale
      [] speed = 100 * Scale /\ m = 200 -> 200 * Scale
      [] OTHER -> -1

\* C18: scheduleNext(actor, m) sets the actor's ticks-remaining to
\* 10000 / effectiveSpeed(actor) scaled by m: speed 100 gives 100, speed
\* 200 gives 50, speed 50 gives 200, speed 100 with multiplier 0.5 gives 50
\* and with multiplier 2.0 gives 200.
C18_ScheduleNextDelay ==
    [][ScheduleNextStep =>
          LET a == acting
              m == lastCall'.arg
              speed == effectiveSpeed(a)
              t == TicksIn(actorSchedule', a)
          IN  /\ t * speed = ((DelayBase * Scale * Scale) \div 100) * m
              /\ ListedDelay(speed, m) # -1 => t = ListedDelay(speed, m)
              /\ \A i \in DOMAIN actorSchedule :
                    actorSchedule[i].actor # a
                        => actorSchedule'[i] = actorSchedule[i]]_vars

\* the hasted character (speed 200) has just been rescheduled with the
\* plain multiplier and waits 50 ticks
C18_Witness ==
    /\ lastCall = Call("scheduleNext", "A", 100)
    /\ acting = "none"
    /\ effectiveSpeed("A") = 200 * Scale
    /\ "A" \in Scheduled
    /\ TicksOf("A") = 50 * Scale


\* C19: no scheduled actor's ticks-remaining is ever negative, whatever
\* sequence of advance, scheduleNext, grantImmediateAction, delay (also with
\* a negative extraTicks larger than the current value), addActor and
\* removeActor has been made.
C19_TicksNeverNegative ==
    \A i \in DOMAIN actorSchedule : actorSchedule[i].ticks >= 0

\* delay has just been called with a negative amount that exceeds what the
\* actor had left, and the actor stands at 0
C19_Witness ==
    /\ lastCall.op = "delay"
    /\ lastCall.arg[1] < 0
    /\ lastCall.arg[2] > 0
    /\ lastCall.arg[2] + lastCall.arg[1] < 0
    /\ lastCall.actor \in Scheduled
    /\ TicksOf(lastCall.actor) = 0


\* a step of grantImmediateAction
GrantStep == lastCall'.op = "grantImmediateAction"

\* the actors granted an immediate action that are still at 0
GrantedAtZero ==
    {a \in granted \cap Scheduled : TicksIn(actorSchedule, a) = 0}

\* C20 as stated: after grantImmediateAction(actor) the actor is at 0, and
\* while a granted actor has not been returned by advance() no advance()
\* call moves the current tick forward.
C20_ImmediateActionBeforeTick ==
    [][/\ GrantStep => TicksIn(actorSchedule', lastCall'.actor) = 0
       /\ (AdvanceStep /\ granted # {})
             => /\ currentTick' = currentTick
                /\ TicksIn(actorSchedule, acting') = 0]_vars

\* C20, amended: after grantImmediateAction(actor) the actor is at 0, and
\* as long as no later scheduleNext or delay call has raised its
\* ticks-remaining again, an advance() call leaves the current tick as it
\* is and returns the earliest registered actor at 0, so the granted actor
\* is returned before the current tick next increases.
C20_ImmediateActionUnlessRescheduled ==
    [][/\ GrantStep => TicksIn(actorSchedule', lastCall'.actor) = 0
       /\ (AdvanceStep /\ GrantedAtZero # {})
             => /\ currentTick' = currentTick
                /\ actorSchedule' = actorSchedule
                /\ TicksIn(actorSchedule, acting') = 0
                /\ \A a \in GrantedAtZero :
                      PlaceIn(actorSchedule, acting')
                          <= PlaceIn(actorSchedule, a)
       /\ (AdvanceStep /\ currentTick' > currentTick)
             => GrantedAtZero = {}]_vars

\* an actor that still had ticks to wait, and whose turn it is not, has
\* just been granted an immediate action and stands at 0
C20_Witness ==
    /\ lastCall.op = "grantImmediateAction"
    /\ lastCall.arg > 0
    /\ lastCall.actor \in granted \cap Scheduled
    /\ lastCall.actor # acting
    /\ TicksOf(lastCall.actor) = 0
    /\ currentTick > 0


\* ---- the schedule and the pipeline together (checked under CombatSpec) ----

ScheduledIn(sched) == {sched[i].actor : i \in DOMAIN sched}

\* the event that was in the phases leaves the pipeline after its reactions
EventDone == pc = "reaction" /\ pc' = "loop"

\* handler h was invoked for the current event
Invoked(h) ==
    \E i \in DOMAIN evlog :
        evlog[i].effect = h.effect /\ evlog[i].owner = h.owner

\* C21: advance() never returns an actor that is not in the schedule: an
\* actor with takesTourns false never enters the schedule and is never
\* returned, an actor leaves the schedule with removeActor and comes back
\* only through addActor; the effects of the actors outside the schedule
\* are still invoked for the events of the pipeline.
C21_OnlyScheduledActorsAct ==
    [][/\ ScheduledIn(actorSchedule) \subseteq TurnTakers
       /\ AdvanceStep
             => /\ acting' \in ScheduledIn(actorSchedule)
                /\ takesTourns(acting')
       /\ lastCall'.op = "removeActor"
             => lastCall'.actor \notin ScheduledIn(actorSchedule')
       /\ \A a \in ScheduledIn(actorSchedule') \ ScheduledIn(actorSchedule) :
             lastCall' = Call("addActor", a, "none")
       /\ EventDone
             => \A i \in DOMAIN listeners[cur.type] :
                    Invoked(listeners[cur.type][i])]_vars

\* an attack is in its reaction phase while neither the beach nor the
\* enemy is in the schedule: the beach's handler has been invoked and the
\* enemy's counter-attack has been collected
C21_Witness ==
    /\ pc = "reaction"
    /\ acting = "A"
    /\ "A" \in Scheduled
    /\ "Enemy" \notin Scheduled
    /\ "Beach" \notin Scheduled
    /\ currentTick > 0
    /\ \E i \in DOMAIN evlog : evlog[i].owner = "Beach"
    /\ \E i \in DOMAIN spawned : spawned[i].source = "Enemy"


\* ---- events (checked under Spec) ----

\* the events the pipeline holds: the queued ones and the current one
Held == Range(queue) \cup (IF cur = NoEvent THEN {} ELSE {cur})

\* e is a root, or the child of an event that has been through the
\* pipeline and lies one level above it
WellParented(e) ==
    IF e.parentEvent = NoParent THEN e.depth = 0
    ELSE /\ e.depth > 0
         /\ \E i \in DOMAIN processed :
               /\ processed[i].id = e.parentEvent
               /\ e.depth = processed[i].depth + 1
               /\ processed[i].depth < e.depth

\* the events that enter the queue in this step
Entering == {e \in Range(queue') : \A q \in Range(queue) : q.id # e.id}

\* C22: an event created by a reaction handler has the depth of its parent
\* plus 1 and the event reacted to as parentEvent; a root event has depth 0
\* and no parent; so depth strictly increases along every parent chain.
C22_ChildDepthAndParent ==
    /\ [](\A e \in Held : WellParented(e))
    /\ [][\A e \in Entering :
             IF pc = "reaction"
             THEN e.parentEvent = cur.id /\ e.depth = cur.depth + 1
             ELSE e.parentEvent = NoParent /\ e.depth = 0]_vars

\* a grandchild waits in the queue: the reaction to a reaction
C22_Witness ==
    \E e \in Range(queue) :
        /\ e.depth = 2
        /\ e.parentEvent # NoParent
        /\ \E i \in DOMAIN processed :
              processed[i].id = e.parentEvent /\ processed[i].depth = 1


\* the amounts the event entering the queue can have been constructed with
ConstructedWith ==
    IF pc = "reaction" THEN {spawned[k].amount : k \in DOMAIN spawned}
    ELSE {t.amount : t \in RootEvents}

\* a modification effect applicable to the current event has been invoked
ModificationApplied ==
    \E i \in DOMAIN evlog :
        evlog[i].phase = "modification" /\ evlog[i].owner = cur.source

\* C23: at every point of an event's processing the current values have
\* exactly the keys of the base values and the base values are the values
\* the event was constructed with; the current values start equal to the
\* base values, change only in the modification phase, and equal the base
\* values at resolution when no modification effect applied to the event.
C23_BaseAndCurrentValues ==
    /\ [](/\ \A e \in Held :
               DOMAIN e.currentValues = DOMAIN e.baseValues
          /\ \A e \in Range(queue) : e.currentValues = e.baseValues
          /\ (pc = "resolution" /\ ~ModificationApplied)
                => cur.currentValues = cur.baseValues)
    /\ [][/\ \A e \in Entering :
                /\ e.baseValues.damage \in ConstructedWith
                /\ e.currentValues = e.baseValues
          /\ \A e \in Range(queue), f \in Range(queue') :
                f.id = e.id => f.baseValues = e.baseValues
          /\ (cur # NoEvent /\ cur'.id = cur.id)
                => /\ cur'.baseValues = cur.baseValues
                   /\ cur'.currentValues # cur.currentValues
                         => pc = "modification"
          /\ (cur' # cur /\ cur'.id # cur.id)
                => /\ queue # <<>>
                   /\ cur'.baseValues = Head(queue).baseValues]_vars

\* a counter-attack is about to be resolved: the attacked character's
\* modification handlers have been invoked, none applies to the enemy's
\* event, and the current values are the base values
C23_Witness ==
    /\ pc = "resolution"
    /\ cur.depth = 1
    /\ ~ModificationApplied
    /\ \E i \in DOMAIN evlog : evlog[i].phase = "modification"
    /\ cur.currentValues = cur.baseValues


\* ---- the frame of removeEffectsFromSource (checked under StoreSpec) ----

\* the tags of a's flat collection that were not added with source S
KeptTags(a, S) == SelectSeq(tags[a], LAMBDA t : t.source # S)

\* the number of registrations of effect e for owner a in the listener index
\* idx under event type t
Registrations(idx, t, e, a) ==
    Cardinality({i \in DOMAIN idx[t] :
                    idx[t][i] = [effect |-> e, owner |-> a]})

\* removeEffectsFromSource(S) on a leaves alone what does not belong to S
OnlySourceChanged(a, S) ==
    /\ S \notin DOMAIN effectsBySource[a]
          => /\ effects' = effects
             /\ effectsBySource' = effectsBySource
             /\ listeners' = listeners
    /\ \A b \in Actors \ {a} :
          /\ effects'[b] = effects[b]
          /\ effectsBySource'[b] = effectsBySource[b]
          /\ RegisteredOf(listeners', b) = RegisteredOf(listeners, b)
    /\ effects'[a] = [i \in DOMAIN KeptTags(a, S) |-> KeptTags(a, S)[i].effect]
    /\ \A T \in DOMAIN effectsBySource[a] \ {S} :
          /\ T \in DOMAIN effectsBySource'[a]
          /\ effectsBySource'[a][T] = effectsBySource[a][T]
    /\ \A i \in DOMAIN KeptTags(a, S) : \A t \in Listens(KeptTags(a, S)[i].effect) :
          Registrations(listeners', t, KeptTags(a, S)[i].effect, a) > 0

\* C29 as claimed: removeEffectsFromSource(S) changes only what belongs to
\* S: without a bucket for S it changes nothing, and in every case the
\* effects added under another source stay in the flat collection, in
\* their bucket and registered.
C29_RemovalTouchesOnlySource ==
    [][\A a \in Actors, S \in Sources :
          RemoveCall(a, S) => OnlySourceChanged(a, S)]_vars

\* C29 amended: the same, for the calls made while no effect has been added
\* under a second source while it was in the collection under another one.
C29_RemovalTouchesOnlySourceUnlessReAdded ==
    [][\A a \in Actors, S \in Sources :
          (RemoveCall(a, S) /\ ~reAdded) => OnlySourceChanged(a, S)]_vars

\* removeEffectsFromSource has taken the one effect of a source out of a
\* store that keeps an effect of another source, another actor holding an
\* effect too; no effect was ever added under two sources
C29_Witness ==
    /\ ~reAdded
    /\ lastCall.op = "removeEffectsFromSource"
    /\ Len(lastCall.arg[2]) = 1
    /\ Len(effects[lastCall.actor]) = 1
    /\ DOMAIN effectsBySource[lastCall.actor] # {}
    /\ \E b \in Actors \ {lastCall.actor} : effects[b] # <<>>


\* ---- order of the handlers of one phase (checked under OrderSpec) ----

\* the place of the registration of a logged invocation in the listener
\* index as it was when the current event was dequeued
RegPlace(entry) ==
    CHOOSE i \in DOMAIN snap.listeners[cur.type] :
        snap.listeners[cur.type][i] =
            [effect |-> entry.effect, owner |-> entry.owner]

\* C30: within the meta-modification and the modification phase the
\* handlers run in descending priority, and handlers of equal priority run
\* in the order in which their effects were registered with the Pipeline,
\* whichever actor owns them.
C30_PriorityThenRegistrationOrder ==
    \A p \in {"metaModification", "modification"} :
        \A i, j \in DOMAIN LogOf(p) :
            i < j =>
               \/ Priority(LogOf(p)[i].effect) > Priority(LogOf(p)[j].effect)
               \/ /\ Priority(LogOf(p)[i].effect) = Priority(LogOf(p)[j].effect)
                  /\ RegPlace(LogOf(p)[i]) < RegPlace(LogOf(p)[j])

\* B's add-10 was registered first, A's add-10 second and A's multiplier
\* last: the multiplier has run first, then the two additions in the order
\* of their registration
C30_Witness ==
    /\ pc = "validation"
    /\ Len(LogOf("modification")) = 3
    /\ LogOf("modification")[1].effect = "multiplyDamage"
    /\ LogOf("modification")[2].effect = "addDamage"
    /\ LogOf("modification")[2].owner = "B"
    /\ LogOf("modification")[3].effect = "addDamage"
    /\ LogOf("modification")[3].owner = "A"
    /\ RegPlace(LogOf("modification")[1]) = 3

\* create() made this step
CreateCall == lastCall'.op = "create"

\* C28: create() with a type that was never registered fails with
\* "unregistered effect type" and leaves every actor's effect collection, the
\* per-source index and the listener index as they were; with a registered
\* type it hands back the effect that type's factory builds, which for
\* onAttack_addDamage is a modification effect of priority 50 on damage.
C28_CreateChecksRegistration ==
    [][CreateCall =>
          LET type == lastCall'.arg[1]
              made == lastCall'.arg[2]
              owner == lastCall'.actor
          IN  /\ type \notin registry =>
                    /\ ~made.ok
                    /\ made.error = "unregistered effect type"
                    /\ effects' = effects
                    /\ effectsBySource' = effectsBySource
                    /\ listeners' = listeners
              /\ type \in registry =>
                    /\ made.ok
                    /\ made.effect = Factory(type)
                    /\ effects'[owner] = Append(effects[owner], Factory(type))
                    /\ type = "onAttack_addDamage" =>
                          /\ Phase(made.effect) = "modification"
                          /\ Priority(made.effect) = 50
                          /\ Listens(made.effect) = {"damage"}]_vars

\* a create() that failed while other types were registered and effects held
C28_Witness ==
    /\ lastCall.op = "create"
    /\ ~lastCall.arg[2].ok
    /\ lastCall.arg[1] \notin registry
    /\ registry # {}
    /\ EffectCount > 0

\* the life-steal scenario: A holds "+20% damage" and "heal for 30% of the
\* damage increase"
LifeStealStore == effects["A"] = EffectsOf(LifeStealGrants)

\* the event in the pipeline is a root attack of A for the given base damage
AttackFor(amount) ==
    /\ cur.id # NoEvent.id
    /\ cur.type = "damage"
    /\ cur.depth = 0
    /\ cur.source = "A"
    /\ cur.baseValues.damage = amount

ResolveStep == pc = "resolution" /\ pc' = "reaction"

ProcessedAt(d) == {i \in DOMAIN processed : processed[i].depth = d}

AmplifyStore ==
    /\ effects["A"] = <<"percentDamage">>
    /\ effects["B"] = <<"amplify">>

\* a handler of the given phase runs in this step
HandlerStep(phase) == pc = phase /\ pc' = phase /\ todo # <<>>

\* C25: in the amplified-bonus scenario with an attack of base damage 100,
\* the meta-modification (priority 150 or more) registers an interceptor
\* multiplying additive modifications by 1.5 and leaves the current values
\* as they were; the priority-50 modification, contributing 20 by itself,
\* applies 30; and the event is resolved at currentDamage exactly 130, which
\* is what the target loses.
C25_AmplifiedBonus ==
    /\ [][(AmplifyStore /\ AttackFor(100 * Scale)
               /\ HandlerStep("metaModification")) =>
            /\ Head(todo).effect = "amplify"
            /\ Priority(Head(todo).effect) >= 150
            /\ cur'.currentValues = cur.currentValues
            /\ cur'.currentValues = cur'.baseValues
            /\ interceptors' =
                  Append(interceptors,
                         [for |-> "A", kind |-> "additive", pct |-> 150])]_vars
    /\ [][(AmplifyStore /\ AttackFor(100 * Scale)
               /\ HandlerStep("modification")) =>
            /\ Head(todo).effect = "percentDamage"
            /\ Priority(Head(todo).effect) = 50
            /\ Times(cur.currentValues.damage, 20) = 20 * Scale
            /\ cur'.currentValues.damage =
                  cur.currentValues.damage + 30 * Scale]_vars
    /\ [][(AmplifyStore /\ AttackFor(100 * Scale) /\ ResolveStep) =>
            /\ cur.currentValues.damage = 130 * Scale
            /\ cur.baseValues.damage = 100 * Scale
            /\ hp'["Enemy"] = hp["Enemy"] - 130 * Scale]_vars

\* one attack for 100 has been resolved in the amplified-bonus scenario
C25_Witness ==
    /\ AmplifyStore
    /\ pc = "idle"
    /\ Len(processed) = 1
    /\ cur.baseValues.damage = 100 * Scale
    /\ cur.currentValues.damage = 130 * Scale
    /\ hp["Enemy"] = (BaseHp - 130) * Scale

\* the scenario of counter-attacks on both sides
RetaliationStore ==
    /\ effects["A"] = <<"counterAttack">>
    /\ effects["Enemy"] = <<"counterAttack">>

\* C27: a counter-attack handler run on an event flagged isRetaliation
\* spawns nothing; run on an unflagged event that damages its owner it
\* spawns its retaliation, flagged isRetaliation, against the attacker.
\* With counter-attacks on both sides no event is ever deeper than the first
\* retaliation, none is dropped at the depth limit, and when drain() has
\* returned every attack has had exactly one retaliation.
C27_FlagSuppression ==
    /\ [][(HandlerStep("reaction") /\ Head(todo).effect = "counterAttack") =>
            /\ "isRetaliation" \in cur.flags => spawned' = spawned
            /\ ("isRetaliation" \notin cur.flags
                   /\ cur.target = Head(todo).owner) =>
                  /\ Len(spawned') = Len(spawned) + 1
                  /\ LET t == spawned'[Len(spawned')] IN
                        /\ t.type = "damage"
                        /\ t.source = Head(todo).owner
                        /\ t.target = cur.source
                        /\ "isRetaliation" \in t.flags]_vars
    /\ [](RetaliationStore =>
            /\ \A i \in DOMAIN queue : queue[i].depth <= 1
            /\ \A i \in DOMAIN processed :
                  /\ processed[i].depth <= 1
                  /\ processed[i].outcome = "reacted"
            /\ pc = "idle" =>
                  Cardinality(ProcessedAt(1)) = Cardinality(ProcessedAt(0)))

\* A's counter-attack has run on the enemy's retaliation and the chain ended
C27_Witness ==
    /\ RetaliationStore
    /\ pc = "idle"
    /\ Len(processed) = 2
    /\ cur.target = "A"
    /\ "isRetaliation" \in cur.flags
    /\ \E i \in DOMAIN evlog :
          evlog[i].effect = "counterAttack" /\ evlog[i].owner = "A"

\* the chained-attack scenario: A holds the chain effect
ChainStore == effects["A"] = <<"chain">>

\* the event the chain handler adds in this step
Chained == spawned'[Len(spawned')]

\* C26: the chain effect (factor 0.7, at most 3 chains) reacting to the
\* attack for 100 at chain depth 0 spawns one chained event of exactly 70 at
\* chain depth 1; reacting to that event it spawns one of exactly 49 at chain
\* depth 2; and no chained event of chain depth 3 is ever spawned.
C26_ChainDiminishes ==
    /\ [][(ChainStore /\ HandlerStep("reaction")
               /\ Head(todo).effect = "chain" /\ cur.source = "A") =>
            /\ (chainDepth(cur) = 0 /\ cur.baseValues.damage = 100 * Scale) =>
                  /\ Len(spawned') = Len(spawned) + 1
                  /\ Chained.amount = 70 * Scale
                  /\ Chained.chainDepth = 1
            /\ (chainDepth(cur) = 1 /\ cur.baseValues.damage = 70 * Scale) =>
                  /\ Len(spawned') = Len(spawned) + 1
                  /\ Chained.amount = 49 * Scale
                  /\ Chained.chainDepth = 2
            /\ chainDepth(cur) >= 2 => spawned' = spawned]_vars
    /\ [](\A i \in DOMAIN queue : chainDepth(queue[i]) < MaxChains)

\* an event has been dequeued and its last phase has not ended
InPipeline == pc \notin {"idle", "loop"}

\* C31: from the dequeue of an event to the end of its last phase the event
\* in the pipeline stays the same one, every handler invocation logged is one
\* of its own, hp changes only by its own resolution, the only outcome
\* recorded is its own, and the queue changes only when its last phase ends,
\* by the events its reaction handlers spawned being appended; no queued
\* event, its children included, is touched before the loop dequeues it.
C31_OneEventAtATime ==
    /\ [][InPipeline =>
            /\ cur'.id = cur.id
            /\ hp' # hp => (pc = "resolution" /\ hp' = Resolution(cur, hp))
            /\ queue' # queue =>
                  /\ EventDone
                  /\ queue' = queue \o Children(spawned, cur, nextId)
            /\ processed' # processed =>
                  /\ ~InPipeline'
                  /\ Len(processed') = Len(processed) + 1
                  /\ processed'[Len(processed')].id = cur.id
            /\ evlog' # evlog =>
                  /\ Len(evlog') = Len(evlog) + 1
                  /\ evlog'[Len(evlog')].seen = cur.currentValues
                  /\ SubSeq(evlog', 1, Len(evlog)) = evlog
            /\ ~InPipeline' => pc' = "loop"]_vars
    /\ [](InPipeline =>
            /\ \A i \in DOMAIN queue : queue[i].id # cur.id
            /\ \A i \in DOMAIN processed : processed[i].id # cur.id)
    /\ [](\A i \in DOMAIN queue, j \in DOMAIN processed :
            queue[i].id # processed[j].id)

\* the enemy's counter-attack has been spawned by the event in the pipeline
\* and waits outside the queue while another root event is still queued
C31_Witness ==
    /\ pc = "reaction"
    /\ todo = <<>>
    /\ spawned # <<>>
    /\ queue # <<>>
    /\ cur.depth = 0

RECURSIVE RegisteredBy(_, _, _)
\* the interceptors the meta-modification handlers logged in log set up for
\* the event ev, on top of ints
RegisteredBy(log, ev, ints) ==
    IF log = <<>> THEN ints
    ELSE RegisteredBy(Tail(log), ev,
                      IF Head(log).phase = "metaModification"
                      THEN MetaHandler([effect |-> Head(log).effect,
                                        owner |-> Head(log).owner], ev, ints)
                      ELSE ints)

\* C32: the interceptors in force are exactly those the meta-modification
\* handlers have registered for the event now in the pipeline; they exist
\* only during that event's meta-modification and modification phases, are
\* gone when the event leaves the pipeline and when the next one is dequeued,
\* and a modification is adjusted only by interceptors registered for its own
\* event.
C32_InterceptorsScopedToEvent ==
    /\ [](pc \in {"metaModification", "modification"} =>
              interceptors = RegisteredBy(evlog, cur, <<>>))
    /\ [](pc \notin {"metaModification", "modification"} =>
              interceptors = <<>>)
    /\ [][HandlerStep("modification") =>
              cur' = ModHandler(Head(todo), cur,
                                RegisteredBy(evlog, cur, <<>>))]_vars

\* the enemy's counter-attack, child of an attack of A that B's amplify
\* intercepted, is in its modification phase with no interceptor in force
C32_Witness ==
    /\ pc = "modification"
    /\ todo # <<>>
    /\ cur.depth = 1
    /\ cur.source = "Enemy"
    /\ interceptors = <<>>
    /\ "amplify" \in Range(effects["B"])
    /\ \E i \in DOMAIN evlog : evlog[i].effect = "amplify"

\* number of entries of s equal to x
Count(s, x) == Cardinality({i \in DOMAIN s : s[i] = x})

\* number of invocations of the effect of owner logged for a phase
Invocations(phase, effect, owner) ==
    Cardinality({i \in DOMAIN evlog :
                    /\ evlog[i].phase = phase
                    /\ evlog[i].effect = effect
                    /\ evlog[i].owner = owner})

\* addEffect made this step
AddEffectCall == lastCall'.op = "addEffect" /\ tags' # tags

\* C33: every addEffect call, whether or not the actor already holds the
\* effect, adds one entry to the flat collection and one listener
\* registration; when a phase of an event ends, each effect of that phase
\* has been invoked once per entry its owner holds, so an attack of A
\* holding "+10 damage" twice leaves its modification phase with 20 more
\* than its base, and with 10 or 0 more when one or no entry is held.
C33_AddEffectNotIdempotent ==
    /\ [][AddEffectCall =>
            LET a == lastCall'.actor
                e == lastCall'.arg[1]
                reg == [effect |-> e, owner |-> a]
            IN  /\ Count(effects'[a], e) = Count(effects[a], e) + 1
                /\ Count(listeners'["damage"], reg) =
                      Count(listeners["damage"], reg) + 1]_vars
    /\ [][(pc = "modification" /\ pc' = "validation") =>
            /\ Invocations("modification", "addDamage", "A") =
                  Count(effects["A"], "addDamage")
            /\ cur.source = "A" =>
                  cur.currentValues.damage =
                     cur.baseValues.damage
                       + Count(effects["A"], "addDamage") * 10 * Scale]_vars
    /\ [][EventDone =>
            Invocations("reaction", "counterAttack", "Enemy") =
               Count(effects["Enemy"], "counterAttack")]_vars

\* A holds the same effect twice and its attack has been raised by 20
C33_Witness ==
    /\ effects["A"] = <<"addDamage", "addDamage">>
    /\ Count(listeners["damage"], [effect |-> "addDamage", owner |-> "A"]) = 2
    /\ pc = "resolution"
    /\ cur.source = "A"
    /\ cur.currentValues.damage = cur.baseValues.damage + 20 * Scale

\* a step of scheduleNext at a given effective speed
ScheduleNextAtStep ==
    /\ acting # "none"
    /\ acting' = "none"
    /\ lastCall'.op = "scheduleNext"

\* C34: for every positive effective speed and every positive multiplier
\* scheduleNext leaves the actor at least 1 tick from its next action, never
\* at 0, and advance() returns an actor with ticks-remaining above 0 only by
\* moving the current tick forward.
C34_DelayAtLeastOneTick ==
    /\ [][ScheduleNextAtStep =>
            /\ TicksIn(actorSchedule', acting) # 0
            /\ TicksIn(actorSchedule', acting) >= 1 * Scale]_vars
    /\ [][(AdvanceStep /\ TicksIn(actorSchedule, acting') > 0) =>
            currentTick' > currentTick]_vars

\* the registrations of modification effects for the type of the event in
\* the pipeline
ModRegistrations ==
    {h \in Range(listeners[cur.type]) : Phase(h.effect) = "modification"}

\* C35: while an event is in the pipeline each modification effect has been
\* invoked at most once per registration, and exactly once per registration
\* when the modification phase is over; a modification handler's step takes
\* that handler off the list of handlers still to run and adds none, and it
\* puts no event in the queue or among the spawned events; no modification
\* handler runs once the phase is over.
C35_ModificationsRunOnce ==
    /\ [](InPipeline =>
            \A h \in ModRegistrations :
               /\ Invocations("modification", h.effect, h.owner)
                     <= Count(listeners[cur.type], h)
               /\ pc \in {"validation", "resolution", "reaction"} =>
                     Invocations("modification", h.effect, h.owner)
                        = Count(listeners[cur.type], h))
    /\ [][HandlerStep("modification") =>
            /\ todo' = Tail(todo)
            /\ queue' = queue
            /\ spawned' = spawned
            /\ nextId' = nextId]_vars
    /\ [][(InPipeline /\ pc # "modification") =>
            \A h \in ModRegistrations :
               Invocations("modification", h.effect, h.owner)' =
                  Invocations("modification", h.effect, h.owner)]_vars

\* both modifications of A have run on its attack, each once, and changed it
C35_Witness ==
    /\ pc = "validation"
    /\ cur.source = "A"
    /\ Invocations("modification", "multiplyDamage", "A") = 1
    /\ Invocations("modification", "addDamage", "A") = 1
    /\ cur.currentValues.damage > cur.baseValues.damage + 10 * Scale

\* ids are given in the order of submission
InSubmissionOrder(s) ==
    \A i \in DOMAIN s : i < Len(s) => s[i].id < s[i + 1].id

\* C36: events wait in the queue in the order they were submitted and leave
\* it from the front, so they are processed in the order of submission; the
\* events a reaction phase spawned are appended behind every event already
\* queued, and an event never waits behind one of greater depth.
C36_QueueIsFifo ==
    /\ [](InSubmissionOrder(queue) /\ InSubmissionOrder(processed))
    /\ [](\A i \in DOMAIN queue :
              i < Len(queue) => queue[i].depth <= queue[i + 1].depth)
    /\ [][(pc = "loop" /\ queue' # queue) =>
              /\ cur' = Head(queue)
              /\ queue' = Tail(queue)]_vars
    /\ [][EventDone =>
              /\ SubSeq(queue', 1, Len(queue)) = queue
              /\ \A i \in DOMAIN queue' :
                    i > Len(queue) => queue'[i].parentEvent = cur.id]_vars
    /\ []((queue # <<>> /\ processed # <<>>) =>
              processed[Len(processed)].id < Head(queue).id)

\* a reaction's child waits behind a root event that was queued before it
C36_Witness ==
    /\ Len(queue) = 2
    /\ queue[1].depth = 0
    /\ queue[2].depth = 1
    /\ queue[2].parentEvent < queue[1].id

\* s without its last n entries
DropLast(s, n) == SubSeq(s, 1, Len(s) - n)

\* the item unequipItem is called with in this step is the one the call
\* before, an equipItem on the same character, was made with
RoundTripStep(a, item) ==
    /\ lastCall = Call("equipItem", a, item)
    /\ lastCall' = Call("unequipItem", a, item)

\* effectiveStat(a, stat) as it was before the last item was equipped
StatBefore(a, stat) ==
    (AddFlats(BaseStats(a)[stat] + OrElse(Granted(ClassFlat(a), stat), 0),
              DropLast(equipment[a], 1), stat)
        * Scale * MulPercents(1, buffs[a], stat)) \div Pow100(Len(buffs[a]))

\* after the unequipItem of this step everything is as it was before the
\* equipItem that preceded it
BackToBefore(a, item) ==
    LET n == Len(ItemEffects(item)) IN
    /\ equipment' = [equipment EXCEPT ![a] = DropLast(@, 1)]
    /\ effects' = [effects EXCEPT ![a] = DropLast(@, n)]
    /\ ItemSource(item) \notin DOMAIN effectsBySource'[a]
    /\ \A src \in DOMAIN effectsBySource[a] \ {ItemSource(item)} :
          /\ src \in DOMAIN effectsBySource'[a]
          /\ effectsBySource'[a][src] = effectsBySource[a][src]
    /\ \A b \in Actors \ {a} : effectsBySource'[b] = effectsBySource[b]
    /\ listeners' = [t \in EventTypes |->
                        DropLast(listeners[t],
                                 Cardinality({k \in 1..n :
                                     t \in Listens(ItemEffects(item)[k])}))]
    /\ \A stat \in Stats : effectiveStat(a, stat)' = StatBefore(a, stat)
    /\ \A b \in Characters \ {a}, stat \in Stats :
          effectiveStat(b, stat)' = effectiveStat(b, stat)

\* C37 as stated: equipItem followed by unequipItem of the same item leaves
\* the equipment list, the flat effect collection, the source index (with no
\* bucket of the item), the listener registrations and every effective stat
\* as they were before the equip.
C37_EquipUnequipRoundTrip ==
    [][\A a \in Characters, item \in Items :
          RoundTripStep(a, item) => BackToBefore(a, item)]_vars

\* C37 amended: the same, for an item that was not in the character's
\* equipment list before the equip.
C37_RoundTripOfNewItem ==
    [][\A a \in Characters, item \in Items :
          (RoundTripStep(a, item)
             /\ item \notin Range(DropLast(equipment[a], 1)))
          => BackToBefore(a, item)]_vars

\* the sword, granting two effects, has just been equipped by A on top of
\* the ring, and was not equipped before
C37_Witness ==
    /\ lastCall = Call("equipItem", "A", "sword1")
    /\ equipment["A"] = <<"ring1", "sword1">>
    /\ effects["A"] = ItemEffects("sword1")
    /\ "item:sword1" \in DOMAIN effectsBySource["A"]
    /\ buffs["A"] # <<>>

\* the grant names the stat, with the value 0
ZeroGrant(g, stat) == stat \in DOMAIN g /\ g[stat] = 0

\* the aggregation of effectiveStat over the given items and buffs
StatOver(a, stat, items, bs) ==
    (AddFlats(BaseStats(a)[stat] + OrElse(Granted(ClassFlat(a), stat), 0),
              items, stat)
        * Scale * MulPercents(1, bs, stat)) \div Pow100(Len(bs))

\* the character's items and buffs without those whose grant for the stat
\* is exactly 0
NonZeroItems(a, stat) ==
    SelectSeq(equipment[a], LAMBDA i : ~ZeroGrant(ItemFlat(i), stat))

NonZeroBuffs(a, stat) ==
    SelectSeq(buffs[a], LAMBDA b : ~ZeroGrant(BuffPercent(b), stat))

\* C38: a grant of exactly 0 counts as an absent one: every effective stat
\* equals the value aggregated without the items whose flat grant for the
\* stat is 0 and without the buffs whose percent grant for it is 0, and so
\* is never forced to 0.
C38_ZeroGrantIsAbsentGrant ==
    \A a \in Characters, stat \in Stats :
        /\ effectiveStat(a, stat)
             = StatOver(a, stat, NonZeroItems(a, stat), NonZeroBuffs(a, stat))
        /\ effectiveStat(a, stat) > 0

\* A holds the ring (flat attack 0) and is disarmed (percent attack 0) and
\* its attack is base 20 + class 5
C38_Witness ==
    /\ equipment["A"] = <<"ring1">>
    /\ "disarm" \in Range(buffs["A"])
    /\ "rage" \notin Range(buffs["A"])
    /\ effectiveStat("A", "attack") = 25 * Scale

\* the clock of the loop has run to its bound: the next turn lies beyond it
ClockRunOut ==
    /\ actorSchedule # <<>>
    /\ currentTick + MinTicks > MaxLoopTick * Scale

\* C39: in the combat loop every actor in the schedule is returned by
\* advance() again and again for as long as the clock runs, and between two
\* consecutive turns of an actor with delay d no other actor acts more than
\* twice with a delay of d or more.
C39_NoStarvation ==
    /\ [](\A x \in DOMAIN sinceTurn : \A y \in DOMAIN sinceTurn \ {x} :
             sinceTurn[x].n[y] <= 2)
    /\ \A a \in Fighters :
          (a \in Scheduled) ~> (acting = a \/ ClockRunOut)

\* A is returned by advance() for another turn after the enemy has acted
\* with a delay no shorter than A's since A's last turn
C39_Witness ==
    /\ acting = "A"
    /\ sinceTurn["A"].d > 0
    /\ sinceTurn["A"].n["Enemy"] > 0
    /\ sinceTurn["Enemy"].d >= sinceTurn["A"].d

====
